---- MODULE Spec2Model ----
(***************************************************************************)
(* MANIS news pipeline: the RSS collectors that write into the shared      *)
(* collected_articles list of the run's state dictionary.                  *)
(*                                                                         *)
(* Python strings that the code inspects character by character (titles,   *)
(* summaries, keywords) are sequences of one-character strings, so that    *)
(* strip(), rsplit(), lower() and the substring tests are computed.        *)
(* Points in time are whole hours on the UTC axis; a naive datetime is the *)
(* hour count it shows.  isoformat() of a naive datetime with whole        *)
(* seconds is injective, so a timestamp string is represented by the hour  *)
(* count it prints.                                                        *)
(***************************************************************************)
EXTENDS Integers, Sequences, FiniteSets, TLC

VARIABLES
    state,   \* tool_context.state: the run's dictionary (key -> value)
    last,    \* the most recent tool call: its inputs, the state it found, its return value
    tz,      \* offset (hours) of the process' local clock from UTC
    calls,   \* tool calls made so far
    queries, \* topic queries put to the aggregator collector so far
    seen,    \* raw feed entries handed to the collectors so far
    runner,  \* the pipeline runner: the agent and step it is at, how it ended
    daemon   \* the scheduler: its clock, its jobs, the child process it waits for

vars == <<state, last, tz, calls, queries, seen, runner, daemon>>

-----------------------------------------------------------------------------
(* Bounds of the model *)

NowUTC == 100      \* the UTC hour at which the calls are made
MaxSeen == 2       \* raw entries served over one behaviour (mixed feeds)
MaxCalls == 2      \* tool calls in one behaviour
MaxLongFeed == 4   \* raw entries served over one behaviour (long feeds)
MaxTopicFeed == 2  \* raw entries served over one behaviour (topic feeds)
MaxStageList == 2  \* entries of a stage list handed to the enrichment run
MaxToolCalls == 2  \* enrichment tool calls in one behaviour
MaxSends == 2      \* delivery tool calls in one behaviour
MaxRunEntries == 2 \* raw entries served to the three queries of a pipeline run
MaxClock == 100    \* half-hours of wall clock the scheduler is followed for

-----------------------------------------------------------------------------
(* Python helpers *)

Min(a, b) == IF a < b THEN a ELSE b
Max(a, b) == IF a > b THEN a ELSE b

\* seq[:n] for any integer n (a negative n counts from the end)
PySlice(s, n) ==
    IF n >= 0 THEN SubSeq(s, 1, Min(n, Len(s)))
    ELSE SubSeq(s, 1, Max(Len(s) + n, 0))

\* the characters str.strip() removes and the regex class \s matches
IsSpace(c) == c \in {" ", "\n", "\t", "\r"}

RECURSIVE LStrip(_)
LStrip(s) == IF s # <<>> /\ IsSpace(Head(s)) THEN LStrip(Tail(s)) ELSE s

RECURSIVE RStrip(_)
RStrip(s) ==
    IF s # <<>> /\ IsSpace(s[Len(s)]) THEN RStrip(SubSeq(s, 1, Len(s) - 1)) ELSE s

\* str.strip()
Strip(s) == RStrip(LStrip(s))

\* positions at which needle starts in hay
Occurrences(hay, needle) ==
    { i \in 1..(Len(hay) - Len(needle) + 1) :
        SubSeq(hay, i, i + Len(needle) - 1) = needle }

\* needle in hay
Contains(hay, needle) == Occurrences(hay, needle) # {}

SetMax(S) == CHOOSE x \in S : \A y \in S : y <= x

\* s.rsplit(sep, 1): split at the last occurrence of sep
RSplit1(s, sep) ==
    IF Contains(s, sep)
    THEN LET i == SetMax(Occurrences(s, sep))
         IN  << SubSeq(s, 1, i - 1), SubSeq(s, i + Len(sep), Len(s)) >>
    ELSE << s >>

\* str.lower(), on the ASCII letters
UpperCase == <<"A", "B", "C", "D", "E", "F", "G", "H", "I", "J", "K", "L", "M", "N", "O", "P", "Q", "R", "S", "T", "U", "V", "W", "X", "Y", "Z">>
LowerCase == <<"a", "b", "c", "d", "e", "f", "g", "h", "i", "j", "k", "l", "m", "n", "o", "p", "q", "r", "s", "t", "u", "v", "w", "x", "y", "z">>

LowerChar(c) ==
    IF \E i \in 1..Len(UpperCase) : UpperCase[i] = c
    THEN LowerCase[CHOOSE i \in 1..Len(UpperCase) : UpperCase[i] = c]
    ELSE c

Lower(s) == [i \in 1..Len(s) |-> LowerChar(s[i])]

\* dict.get(key, default)
Get(d, key, default) == IF key \in DOMAIN d THEN d[key] ELSE default

\* d[key] = value
Put(d, key, value) ==
    [k \in DOMAIN d \cup {key} |-> IF k = key THEN value ELSE d[k]]

-----------------------------------------------------------------------------
(* Program constants *)

WindowHours == 48

SEP == <<" ", "-", " ">>

\* the source names the collectors write
GoogleNewsName == <<"G", "o", "o", "g", "l", "e", " ", "N", "e", "w", "s">>
CnnName == <<"C", "N", "N">>
FoxName == <<"F", "o", "x", " ", "N", "e", "w", "s">>
ReutersName == <<"R", "e", "u", "t", "e", "r", "s">>
NoTitleText == <<"N", "o", " ", "t", "i", "t", "l", "e">>

topic_queries == {"politics", "technology", "europe"}
feed_urls == {"politics", "tech"}

sports_filter_keywords == {
    <<"f", "o", "o", "t", "b", "a", "l", "l">>,
    <<"b", "a", "s", "k", "e", "t", "b", "a", "l", "l">>,
    <<"b", "a", "s", "e", "b", "a", "l", "l">>,
    <<"s", "o", "c", "c", "e", "r">>,
    <<"a", "t", "h", "l", "e", "t", "i", "c", "s">>,
    <<"t", "o", "u", "c", "h", "d", "o", "w", "n">>,
    <<"q", "u", "a", "r", "t", "e", "r", "b", "a", "c", "k">>,
    <<"t", "o", "u", "r", "n", "a", "m", "e", "n", "t">>,
    <<"c", "h", "a", "m", "p", "i", "o", "n", "s", "h", "i", "p">>,
    <<"v", "a", "r", "s", "i", "t", "y">>,
    <<"r", "e", "c", "r", "u", "i", "t">>,
    <<"r", "o", "s", "t", "e", "r">>,
    <<"s", "c", "o", "r", "e">>,
    <<"g", "a", "m", "e">>,
    <<"s", "e", "a", "s", "o", "n">> }

university_tech_indicators == {
    <<"g", "e", "o", "r", "g", "i", "a", " ", "t", "e", "c", "h">>,
    <<"v", "i", "r", "g", "i", "n", "i", "a", " ", "t", "e", "c", "h">>,
    <<"t", "e", "x", "a", "s", " ", "t", "e", "c", "h">>,
    <<"l", "o", "u", "i", "s", "i", "a", "n", "a", " ", "t", "e", "c", "h">> }

-----------------------------------------------------------------------------
(* What feedparser hands to a collector *)

\* entry.published_parsed / entry.updated_parsed: absent or None ("none"),
\* a time tuple datetime() refuses ("bad"), or a UTC time tuple ("ok")
NoStamp == [k |-> "none", h |-> 0]
BadStamp == [k |-> "bad", h |-> 0]
At(h) == [k |-> "ok", h |-> h]

\* ages (hours before NowUTC) of the stamps the feeds carry
Ages == {0, 50, 72}

Stamps == {NoStamp, BadStamp} \cup { At(NowUTC - a) : a \in Ages }

SuffixedTitle == <<"a", " ", "-", " ", "b">>
DashTitle == <<" ", "-", " ", "b">>
BlankTitle == <<" ">>

SportsSummary ==
    <<"G", "e", "o", "r", "g", "i", "a", " ", "T", "e", "c", "h", " ", "g", "a", "m", "e">>

\* the ordinary entry: published now, titled, no summary text
Plain ==
    [published |-> At(NowUTC), updated |-> NoStamp, has_title |-> TRUE,
     title |-> <<"a">>, summary |-> <<>>]

\* the ordinary entry and the entries that differ from it in one respect:
\* its stamps (none at all, only an updated one, a refused one, a stale one)
\* or its title (with a source suffix, empty, no title attribute)
Entries ==
    { [Plain EXCEPT !.published = p] : p \in Stamps }
    \cup { [Plain EXCEPT !.published = NoStamp, !.updated = At(NowUTC)] }
    \cup { [Plain EXCEPT !.title = t] : t \in {SuffixedTitle, <<>>} }
    \cup { [Plain EXCEPT !.has_title = FALSE, !.title = <<>>] }

RECURSIVE SeqsUpTo(_, _)
SeqsUpTo(S, n) ==
    IF n = 0 THEN {<<>>}
    ELSE LET shorter == SeqsUpTo(S, n - 1)
         IN  shorter \cup { Append(q, x) : q \in { r \in shorter : Len(r) = n - 1 }, x \in S }

\* feedparser.parse(url): it raises, it returns an object without entries,
\* or it returns the entries (possibly none)
Served(es) == [kind |-> "ok", entries |-> es]
RaisingFeed == [kind |-> "raise", entries |-> <<>>]
NoEntriesAttr == [kind |-> "noattr", entries |-> <<>>]

Feeds ==
    {RaisingFeed, NoEntriesAttr} \cup { Served(es) : es \in SeqsUpTo(Entries, MaxSeen) }

\* long feeds of ordinary, oddly titled, sports and stale entries
LongEntries ==
    { Plain,
      [Plain EXCEPT !.title = DashTitle],
      [Plain EXCEPT !.title = BlankTitle],
      [Plain EXCEPT !.summary = SportsSummary],
      [Plain EXCEPT !.published = At(NowUTC - 72)] }

LongFeeds == { Served(es) : es \in SeqsUpTo(LongEntries, MaxLongFeed) }

\* entries that differ in what the sports filter and the source split see
TouchdownSummary ==
    <<"G", "e", "o", "r", "g", "i", "a", " ", "T", "e", "c", "h", " ", "t", "o", "u", "c", "h", "d", "o", "w", "n">>
AiModelSummary == <<"A", "I", " ", "m", "o", "d", "e", "l">>
GameplaySummary ==
    <<"G", "e", "o", "r", "g", "i", "a", " ", "T", "e", "c", "h", " ", "g", "a", "m", "e", "p", "l", "a", "y">>
GameSeasonSummary == <<"g", "a", "m", "e", " ", "s", "e", "a", "s", "o", "n">>
GamesSeasonsSummary == <<"g", "a", "m", "e", "s", " ", "s", "e", "a", "s", "o", "n", "s">>
TwoSuffixTitle == <<"a", " ", "-", " ", "b", " ", "-", " ", "c">>

TopicEntries ==
    { Plain, [Plain EXCEPT !.title = TwoSuffixTitle] }
    \cup { [Plain EXCEPT !.summary = t] :
              t \in { TouchdownSummary, AiModelSummary, GameplaySummary,
                      GameSeasonSummary, GamesSeasonsSummary } }

TopicFeeds == { Served(es) : es \in SeqsUpTo(TopicEntries, MaxTopicFeed) }

\* the max_articles arguments tried
MaxArticlesArgs == {0 - 1, 0, 1, 2}

\* topic / category arguments: the supported ones and an unsupported one
TopicArgs == topic_queries \cup {"invalid_topic"}
CategoryArgs == feed_urls \cup {"invalid_category"}

TzOffsets == {0 - 5, 0}

-----------------------------------------------------------------------------
(* Pieces shared by the collectors *)

\* the date block of the Google, CNN and Fox loops: published_parsed if
\* truthy, else updated_parsed if truthy, else skip; an exception skips
ParseDate(e) ==
    IF e.published.k # "none"
    THEN [ok |-> e.published.k = "ok", h |-> e.published.h]
    ELSE IF e.updated.k # "none"
    THEN [ok |-> e.updated.k = "ok", h |-> e.updated.h]
    ELSE [ok |-> FALSE, h |-> 0]

\* datetime.utcnow() and datetime.now(), as naive datetimes
UtcNow == NowUTC
LocalNow(off) == NowUTC + off

\* title = None; if hasattr(entry, 'title') and entry.title: title = str(entry.title).strip()
\* None and the empty string are both falsy, so <<>> stands for either
CheckedTitle(e) ==
    IF e.has_title /\ e.title # <<>> THEN Strip(e.title) ELSE <<>>

\* the summaries of the model carry no markup, so get_text() leaves them as they are
CleanDescription(e) == Strip(e.summary)

\* 'debug_info': f'Feed status: {...}' of the empty-feed result: a text, no counters
FeedStatus == [feed_status |-> "unknown"]

\* variant: the batch goes in front of the articles already there
ExtendInFront(current_articles, articles) == articles \o current_articles

\* current_articles.extend(articles)
Extend(current_articles, articles) == current_articles \o articles

\* the three lines that store a batch under 'collected_articles'
Store(st, articles) ==
    Put(st, "collected_articles", Extend(Get(st, "collected_articles", <<>>), articles))

\* variant: the loop stops one article late
ReachedMaxLate(articles, max_articles) == Len(articles) > max_articles

\* if len(articles) >= max_articles: break
ReachedMax(articles, max_articles) == Len(articles) >= max_articles

-----------------------------------------------------------------------------
(* fetch_google_news_rss *)

\* variant: the list is cleared on every supported topic
GoogleClearsEveryTopic(topic) == topic \in topic_queries

\* variant: the list is cleared unless the topic is one of the later ones
GoogleClearsUnlessLater(topic) == topic \notin {"technology", "europe"}

\* variant: no topic clears the list
GoogleClearsNoTopic(topic) == FALSE

\* if topic == 'politics': tool_context.state['collected_articles'] = []
GoogleClears(topic) == topic = "politics"

\* variant: the university branch also matches whole words only
IsSportsWholeWords(title, clean_description) ==
    LET text_to_check == Lower(title \o <<" ">> \o clean_description)
        sports_hits ==
            Cardinality({ sport \in sports_filter_keywords :
                Contains(<<" ">> \o text_to_check \o <<" ">>,
                         <<" ">> \o sport \o <<" ">>) })
    IN  IF \E u \in university_tech_indicators : Contains(text_to_check, u)
        THEN sports_hits >= 1
        ELSE sports_hits >= 2

\* the sports filter of the technology topic
IsSports(title, clean_description) ==
    LET text_to_check == Lower(title \o <<" ">> \o clean_description)
        has_university_tech ==
            \E u \in university_tech_indicators : Contains(text_to_check, u)
        sports_hits ==
            Cardinality({ sport \in sports_filter_keywords :
                Contains(<<" ">> \o text_to_check \o <<" ">>,
                         <<" ">> \o sport \o <<" ">>) })
    IN  IF has_university_tech
        THEN \E sport \in sports_filter_keywords : Contains(text_to_check, sport)
        ELSE sports_hits >= 2

\* variant: the title is split at its first ' - ' instead of its last
SplitSourceAtFirst(title) ==
    LET k == CHOOSE i \in 1..Len(title) :
                 /\ i + 2 <= Len(title)
                 /\ SubSeq(title, i, i + 2) = SEP
                 /\ \A j \in 1..(i - 1) : SubSeq(title, j, j + 2) # SEP
    IN  IF Contains(title, SEP)
        THEN [title |-> Strip(SubSeq(title, 1, k - 1)),
              source |-> Strip(SubSeq(title, k + 3, Len(title)))]
        ELSE [title |-> title, source |-> GoogleNewsName]

\* source = 'Google News'; if ' - ' in title: title, source = rsplit(' - ', 1), stripped
SplitSource(title) ==
    LET title_parts == RSplit1(title, SEP)
    IN  IF Contains(title, SEP) /\ Len(title_parts) = 2
        THEN [title |-> Strip(title_parts[1]), source |-> Strip(title_parts[2])]
        ELSE [title |-> title, source |-> GoogleNewsName]

GoogleArticle(e, topic, title, pub_date) ==
    LET ts == SplitSource(title)
    IN  [title |-> ts.title,
         source |-> ts.source,
         aggregator |-> "Google News",
         original_source |-> ts.source,
         region |-> IF topic = "europe" THEN "EU/International" ELSE "US",
         category |-> topic,
         timestamp |-> pub_date,
         description |-> CleanDescription(e),
         text |-> CleanDescription(e)]

GoogleCutoff == UtcNow - WindowHours

\* for entry in feed.entries[:max_articles * 3]: ...   (entries already sliced)
RECURSIVE GoogleLoop(_, _, _, _, _)
GoogleLoop(entries, i, topic, max_articles, articles) ==
    IF i > Len(entries) THEN articles
    ELSE
        LET e == entries[i]
            d == ParseDate(e)
            title == CheckedTitle(e)
            skip == GoogleLoop(entries, i + 1, topic, max_articles, articles)
        IN  IF ~d.ok THEN skip
            ELSE IF d.h < GoogleCutoff THEN skip
            ELSE IF title = <<>> THEN skip
            ELSE IF topic = "technology" /\ IsSports(title, CleanDescription(e)) THEN skip
            ELSE
                LET added == Append(articles, GoogleArticle(e, topic, title, d.h))
                IN  IF ReachedMax(added, max_articles) THEN added
                    ELSE GoogleLoop(entries, i + 1, topic, max_articles, added)

\* the whole call: the state it leaves, the value it returns, the batch it stored
fetch_google_news_rss(topic, max_articles, feed, st) ==
    LET st1 == IF GoogleClears(topic) THEN Put(st, "collected_articles", <<>>) ELSE st
    IN  IF topic \notin topic_queries
        THEN [state |-> st1, stored |-> FALSE, batch |-> <<>>,
              ret |-> [success |-> FALSE, error |-> "Invalid topic", articles |-> <<>>]]
        ELSE IF feed.kind = "raise"
        THEN [state |-> st1, stored |-> FALSE, batch |-> <<>>,
              ret |-> [success |-> FALSE, error |-> "Failed to fetch Google News RSS",
                       articles |-> <<>>]]
        ELSE IF feed.kind = "noattr" \/ feed.entries = <<>>
        THEN [state |-> st1, stored |-> FALSE, batch |-> <<>>,
              ret |-> [success |-> FALSE, error |-> "No entries found", articles |-> <<>>,
                       debug_info |-> FeedStatus]]
        ELSE
            LET articles == GoogleLoop(PySlice(feed.entries, max_articles * 3), 1,
                                       topic, max_articles, <<>>)
            IN  [state |-> Store(st1, articles), stored |-> TRUE, batch |-> articles,
                 ret |-> [success |-> TRUE, source |-> "Google News RSS", topic |-> topic,
                          count |-> Len(articles), articles |-> <<>>]]

-----------------------------------------------------------------------------
(* fetch_cnn_rss *)

PlainArticle(title, source, leaning, category, pub_date, e) ==
    [title |-> title,
     source |-> source,
     political_leaning |-> leaning,
     region |-> "US",
     category |-> category,
     timestamp |-> pub_date,
     description |-> CleanDescription(e),
     text |-> CleanDescription(e)]

\* cutoff_time = datetime.now() - timedelta(hours=48)
CnnCutoff(off) == LocalNow(off) - WindowHours

RECURSIVE CnnLoop(_, _, _, _, _, _)
CnnLoop(entries, i, category, max_articles, off, acc) ==
    IF i > Len(entries) THEN acc
    ELSE
        LET e == entries[i]
            d == ParseDate(e)
            title == CheckedTitle(e)
            c == [acc EXCEPT !.entries_checked = @ + 1]
        IN  IF ~d.ok
            THEN CnnLoop(entries, i + 1, category, max_articles, off,
                         [c EXCEPT !.entries_parse_failed = @ + 1])
            ELSE IF d.h < CnnCutoff(off)
            THEN CnnLoop(entries, i + 1, category, max_articles, off,
                         [c EXCEPT !.entries_too_old = @ + 1])
            ELSE IF title = <<>>
            THEN CnnLoop(entries, i + 1, category, max_articles, off,
                         [c EXCEPT !.entries_missing_title = @ + 1])
            ELSE
                LET added == [c EXCEPT !.articles =
                                Append(@, PlainArticle(title, CnnName, "center-left",
                                                       category, d.h, e))]
                IN  IF ReachedMax(added.articles, max_articles) THEN added
                    ELSE CnnLoop(entries, i + 1, category, max_articles, off, added)

fetch_cnn_rss(category, max_articles, feed, off, st) ==
    IF category \notin feed_urls
    THEN [state |-> st, stored |-> FALSE, batch |-> <<>>,
          ret |-> [success |-> FALSE, error |-> "Invalid category", articles |-> <<>>]]
    ELSE IF feed.kind = "raise"
    THEN [state |-> st, stored |-> FALSE, batch |-> <<>>,
          ret |-> [success |-> FALSE, error |-> "Failed to fetch CNN RSS", articles |-> <<>>]]
    ELSE IF feed.kind = "noattr" \/ feed.entries = <<>>
    THEN [state |-> st, stored |-> FALSE, batch |-> <<>>,
          ret |-> [success |-> FALSE, error |-> "No entries found", articles |-> <<>>,
                   debug_info |-> FeedStatus]]
    ELSE
        LET r == CnnLoop(PySlice(feed.entries, max_articles * 2), 1, category, max_articles,
                         off,
                         [articles |-> <<>>, entries_checked |-> 0, entries_too_old |-> 0,
                          entries_parse_failed |-> 0, entries_missing_title |-> 0])
        IN  [state |-> Store(st, r.articles), stored |-> TRUE, batch |-> r.articles,
             ret |-> [success |-> TRUE, source |-> "CNN", category |-> category,
                      count |-> Len(r.articles), articles |-> <<>>,
                      debug_info |->
                        [total_rss_entries |-> Len(feed.entries),
                         entries_checked |-> r.entries_checked,
                         entries_too_old |-> r.entries_too_old,
                         entries_parse_failed |-> r.entries_parse_failed,
                         entries_missing_title |-> r.entries_missing_title,
                         cutoff_time |-> CnnCutoff(off)]]]

-----------------------------------------------------------------------------
(* fetch_fox_news_rss *)

FoxCutoff == UtcNow - WindowHours

\* 'title': str(entry.title) if hasattr(entry, 'title') else 'No title'
UncheckedTitle(e) == IF e.has_title THEN e.title ELSE NoTitleText

\* print(f"... {title[:50]}...") right after articles.append(article): the
\* function has no variable named title, so the line raises NameError
FoxPrintRaises == TRUE

RECURSIVE FoxLoop(_, _, _, _, _)
FoxLoop(entries, i, category, max_articles, acc) ==
    IF i > Len(entries) THEN acc
    ELSE
        LET e == entries[i]
            d == ParseDate(e)
            c == [acc EXCEPT !.entries_checked = @ + 1]
        IN  IF ~d.ok
            THEN FoxLoop(entries, i + 1, category, max_articles,
                         [c EXCEPT !.entries_parse_failed = @ + 1])
            ELSE IF d.h < FoxCutoff
            THEN FoxLoop(entries, i + 1, category, max_articles,
                         [c EXCEPT !.entries_too_old = @ + 1])
            ELSE
                LET added == [c EXCEPT !.articles =
                                Append(@, PlainArticle(UncheckedTitle(e), FoxName, "right",
                                                       category, d.h, e))]
                IN  IF FoxPrintRaises THEN [added EXCEPT !.raised = TRUE]
                    ELSE IF ReachedMax(added.articles, max_articles) THEN added
                    ELSE FoxLoop(entries, i + 1, category, max_articles, added)

fetch_fox_news_rss(category, max_articles, feed, st) ==
    IF category \notin feed_urls
    THEN [state |-> st, stored |-> FALSE, batch |-> <<>>,
          ret |-> [success |-> FALSE, error |-> "Invalid category", articles |-> <<>>]]
    ELSE IF feed.kind = "raise"
    THEN [state |-> st, stored |-> FALSE, batch |-> <<>>,
          ret |-> [success |-> FALSE, error |-> "Failed to fetch Fox News RSS",
                   articles |-> <<>>]]
    ELSE IF feed.kind = "noattr" \/ feed.entries = <<>>
    THEN [state |-> st, stored |-> FALSE, batch |-> <<>>,
          ret |-> [success |-> FALSE, error |-> "No entries found", articles |-> <<>>,
                   debug_info |-> FeedStatus]]
    ELSE
        LET r == FoxLoop(PySlice(feed.entries, max_articles * 2), 1, category, max_articles,
                         [articles |-> <<>>, entries_checked |-> 0, entries_too_old |-> 0,
                          entries_parse_failed |-> 0, raised |-> FALSE])
        IN  IF r.raised
            THEN [state |-> st, stored |-> FALSE, batch |-> <<>>,
                  ret |-> [success |-> FALSE,
                           error |-> "Failed to fetch Fox News RSS: name 'title' is not defined",
                           articles |-> <<>>]]
            ELSE [state |-> Store(st, r.articles), stored |-> TRUE, batch |-> r.articles,
                  ret |-> [success |-> TRUE, source |-> "Fox News", category |-> category,
                           count |-> Len(r.articles), articles |-> <<>>,
                           debug_info |->
                             [total_rss_entries |-> Len(feed.entries),
                              entries_checked |-> r.entries_checked,
                              entries_too_old |-> r.entries_too_old,
                              entries_parse_failed |-> r.entries_parse_failed,
                              cutoff_time |-> FoxCutoff]]]

-----------------------------------------------------------------------------
(* fetch_reuters_rss *)

ReutersCutoff(off) == LocalNow(off) - WindowHours

\* try: pub_date = datetime(*entry.published_parsed[:6])
\* except: pub_date = datetime.now()
ReutersDate(e, off) ==
    IF e.published.k = "ok" THEN e.published.h ELSE LocalNow(off)

RECURSIVE ReutersLoop(_, _, _, _, _, _)
ReutersLoop(entries, i, category, max_articles, off, articles) ==
    IF i > Len(entries) THEN articles
    ELSE
        LET e == entries[i]
            pub_date == ReutersDate(e, off)
        IN  IF pub_date < ReutersCutoff(off)
            THEN ReutersLoop(entries, i + 1, category, max_articles, off, articles)
            ELSE
                LET added == Append(articles,
                                    PlainArticle(UncheckedTitle(e), ReutersName,
                                                 "center-left", category, pub_date, e))
                IN  IF ReachedMax(added, max_articles) THEN added
                    ELSE ReutersLoop(entries, i + 1, category, max_articles, off, added)

fetch_reuters_rss(category, max_articles, feed, off, st) ==
    IF category \notin feed_urls
    THEN [state |-> st, stored |-> FALSE, batch |-> <<>>,
          ret |-> [success |-> FALSE, error |-> "Invalid category", articles |-> <<>>]]
    ELSE IF feed.kind \in {"raise", "noattr"}
    THEN [state |-> st, stored |-> FALSE, batch |-> <<>>,
          ret |-> [success |-> FALSE, error |-> "Failed to fetch Reuters RSS",
                   articles |-> <<>>]]
    ELSE
        LET articles == ReutersLoop(PySlice(feed.entries, max_articles * 2), 1, category,
                                    max_articles, off, <<>>)
        IN  [state |-> Store(st, articles), stored |-> TRUE, batch |-> articles,
             ret |-> [success |-> TRUE, source |-> "Reuters", category |-> category,
                      count |-> Len(articles), articles |-> <<>>]]

-----------------------------------------------------------------------------
(* The run: a fresh state dictionary, then tool calls one after another *)

EmptyDict == [k \in {} |-> <<>>]

NoCall ==
    [fn |-> "none", arg |-> "", max_articles |-> 0, feed |-> Served(<<>>),
     pre |-> EmptyDict, stored |-> FALSE, batch |-> <<>>,
     ret |-> [success |-> FALSE]]

\* no runner process: the tools are called on a state dictionary directly
NoRun ==
    [agents |-> <<>>, agent |-> 0, step |-> 0, feeds |-> <<>>, reports |-> <<>>,
     exited |-> FALSE, exit_code |-> 0, completed |-> FALSE]

\* no scheduler process
NoDaemon ==
    [pos |-> "off", since |-> 0, clock |-> 0, next_run |-> <<>>, job |-> 0, began |-> 0,
     active |-> 0, started |-> <<>>, outcome |-> "none"]

Init ==
    /\ state = EmptyDict
    /\ last = NoCall
    /\ tz \in TzOffsets
    /\ calls = 0
    /\ queries = 0
    /\ seen = 0
    /\ runner = NoRun
    /\ daemon = NoDaemon

\* a tool call that was served the given feed; r is what the tool computed
Record(fn, arg, max_articles, feed, r) ==
    /\ state' = r.state
    /\ last' = [fn |-> fn, arg |-> arg, max_articles |-> max_articles, feed |-> feed,
                pre |-> state, stored |-> r.stored, batch |-> r.batch, ret |-> r.ret]
    /\ calls' = calls + 1
    /\ queries' = IF fn = "fetch_google_news_rss" THEN queries + 1 ELSE queries
    /\ seen' = seen + Len(feed.entries)
    /\ UNCHANGED <<tz, runner, daemon>>

\* no call is in progress and the behaviour may hold one more
Idle ==
    /\ last = NoCall
    /\ calls < MaxCalls

\* the feeds that keep the entries served within maxSeen
Within(feeds, maxSeen) == { f \in feeds : seen + Len(f.entries) <= maxSeen }

FetchGoogleNews(feeds, maxSeen) ==
    /\ Idle
    /\ \E topic \in TopicArgs, max_articles \in MaxArticlesArgs, feed \in Within(feeds, maxSeen) :
        Record("fetch_google_news_rss", topic, max_articles, feed,
                  fetch_google_news_rss(topic, max_articles, feed, state))

FetchCnn(feeds, maxSeen) ==
    /\ Idle
    /\ \E category \in CategoryArgs, max_articles \in MaxArticlesArgs, feed \in Within(feeds, maxSeen) :
        Record("fetch_cnn_rss", category, max_articles, feed,
                  fetch_cnn_rss(category, max_articles, feed, tz, state))

FetchFox(feeds, maxSeen) ==
    /\ Idle
    /\ \E category \in CategoryArgs, max_articles \in MaxArticlesArgs, feed \in Within(feeds, maxSeen) :
        Record("fetch_fox_news_rss", category, max_articles, feed,
                  fetch_fox_news_rss(category, max_articles, feed, state))

FetchReuters(feeds, maxSeen) ==
    /\ Idle
    /\ \E category \in CategoryArgs, max_articles \in MaxArticlesArgs, feed \in Within(feeds, maxSeen) :
        Record("fetch_reuters_rss", category, max_articles, feed,
                  fetch_reuters_rss(category, max_articles, feed, tz, state))

\* the agent takes the tool's return value and goes on
Return ==
    /\ last # NoCall
    /\ last' = NoCall
    /\ UNCHANGED <<state, tz, calls, queries, seen, runner, daemon>>

Next ==
    \/ Return
    \/ FetchGoogleNews(Feeds, MaxSeen)
    \/ FetchCnn(Feeds, MaxSeen)
    \/ FetchFox(Feeds, MaxSeen)
    \/ FetchReuters(Feeds, MaxSeen)

Spec == Init /\ [][Next]_vars

\* the aggregator collector served long feeds
NextLong ==
    \/ Return
    \/ FetchGoogleNews(LongFeeds, MaxLongFeed)

SpecLong == Init /\ [][NextLong]_vars

\* the aggregator collector served feeds of sports-flavoured and suffixed entries
NextTopics ==
    \/ Return
    \/ FetchGoogleNews(TopicFeeds, MaxTopicFeed)

SpecTopics == Init /\ [][NextTopics]_vars

TypeOK ==
    /\ calls \in 0..MaxCalls
    /\ DOMAIN state \subseteq {"collected_articles"}

-----------------------------------------------------------------------------
(* preprocess_articles *)

\* isinstance(article, dict): an entry of a stage list is a record of fields,
\* or some other value, written here as the one record with this marker
NonRecord == [not_a_dict |-> TRUE]
IsDict(article) == "not_a_dict" \notin DOMAIN article

\* article.copy() followed by the item assignments in fields
Augmented(article, fields) ==
    [k \in DOMAIN article \cup DOMAIN fields |->
        IF k \in DOMAIN fields THEN fields[k] ELSE article[k]]

\* variant: the first entry of the list is skipped
ValidOnesAfterFirst(articles) ==
    SelectSeq(IF articles = <<>> THEN <<>> ELSE Tail(articles), IsDict)

\* the entries of a stage list that pass the isinstance check, in order
ValidOnes(articles) == SelectSeq(articles, IsDict)

\* re.sub(r'\s+', ' ', text)
RECURSIVE CollapseWhitespace(_)
CollapseWhitespace(s) ==
    IF s = <<>> THEN <<>>
    ELSE IF IsSpace(Head(s))
    THEN <<" ">> \o CollapseWhitespace(LStrip(s))
    ELSE <<Head(s)>> \o CollapseWhitespace(Tail(s))

\* len(s.split())
WordCount(s) ==
    Cardinality({ i \in 1..Len(s) : ~IsSpace(s[i]) /\ (i = 1 \/ IsSpace(s[i - 1])) })

IsTerminator(c) == c \in {".", "!", "?"}

RECURSIVE SkipTerminators(_)
SkipTerminators(s) ==
    IF s # <<>> /\ IsTerminator(Head(s)) THEN SkipTerminators(Tail(s)) ELSE s

\* re.split(r'[.!?]+', text)
RECURSIVE SplitSentences(_)
SplitSentences(s) ==
    IF \A i \in 1..Len(s) : ~IsTerminator(s[i]) THEN <<s>>
    ELSE LET k == CHOOSE i \in 1..Len(s) :
                      IsTerminator(s[i]) /\ \A j \in 1..(i - 1) : ~IsTerminator(s[j])
         IN  <<SubSeq(s, 1, k - 1)>>
                 \o SplitSentences(SkipTerminators(SubSeq(s, k, Len(s))))

claim_verbs == {
    <<"s", "a", "i", "d">>,
    <<"s", "a", "y", "s">>,
    <<"s", "t", "a", "t", "e", "d">>,
    <<"a", "n", "n", "o", "u", "n", "c", "e", "d">>,
    <<"r", "e", "p", "o", "r", "t", "e", "d">>,
    <<"c", "o", "n", "f", "i", "r", "m", "e", "d">>,
    <<"r", "e", "v", "e", "a", "l", "e", "d">>,
    <<"c", "l", "a", "i", "m", "e", "d">>,
    <<"a", "r", "g", "u", "e", "d">>,
    <<"w", "a", "r", "n", "e", "d">>,
    <<"p", "r", "e", "d", "i", "c", "t", "e", "d">>,
    <<"d", "e", "c", "l", "a", "r", "e", "d">> }

MaxClaimsPerArticle == 5
MinClaimWords == 5

RECURSIVE ClaimsLoop(_, _, _)
ClaimsLoop(sentences, i, claims) ==
    IF i > Len(sentences) THEN claims
    ELSE
        LET sentence == Strip(sentences[i])
        IN  IF WordCount(sentence) < MinClaimWords
            THEN ClaimsLoop(sentences, i + 1, claims)
            ELSE
                LET kept == IF \E verb \in claim_verbs : Contains(Lower(sentence), verb)
                            THEN Append(claims, sentence)
                            ELSE claims
                IN  IF Len(kept) >= MaxClaimsPerArticle THEN kept
                    ELSE ClaimsLoop(sentences, i + 1, kept)

extract_claims(text) == ClaimsLoop(SplitSentences(text), 1, <<>>)

\* what the spaCy pipeline returns for a text is the library's business: the
\* results it may give are these (entities named opaquely)
NoEntities ==
    [persons |-> <<>>, organizations |-> <<>>, locations |-> <<>>, all_entities |-> <<>>]
SomeEntities ==
    [persons |-> <<"Ann Lee">>, organizations |-> <<"Acme Corp">>, locations |-> <<>>,
     all_entities |-> <<"Ann Lee", "Acme Corp">>]
EntityResults == {NoEntities, SomeEntities}

\* the module was imported with the spaCy model installed
SPACY_AVAILABLE == TRUE

\* total / count as Python's true division gives it: the exact fraction
Fraction(total, count) == [num |-> total, den |-> count]

RECURSIVE SumOver(_, _)
SumOver(s, field) ==
    IF s = <<>> THEN 0 ELSE SumOver(Tail(s), field) + Head(s)[field]

RECURSIVE SumLen(_, _)
SumLen(s, field) ==
    IF s = <<>> THEN 0 ELSE SumLen(Tail(s), field) + Len(Head(s)[field])

\* the members of the named lists of the first two articles (a set: the code
\* takes list(set(...))[:5], and the modelled entity results name at most two)
Sample(processed, field) ==
    UNION { { processed[i][field][j] : j \in 1..Len(processed[i][field]) } :
              i \in 1..Min(2, Len(processed)) }

\* the article built from one valid entry; entity_data is spaCy's result
ProcessedArticle(article, entity_data) ==
    LET text == IF "text" \in DOMAIN article THEN article.text
                ELSE IF "description" \in DOMAIN article THEN article.description
                ELSE <<>>
        clean_text == Strip(CollapseWhitespace(text))
    IN  Augmented(article,
            [clean_text |-> clean_text,
             entities |-> entity_data.all_entities,
             persons |-> entity_data.persons,
             organizations |-> entity_data.organizations,
             locations |-> entity_data.locations,
             claims |-> extract_claims(clean_text),
             word_count |-> WordCount(clean_text)])

\* the whole call; ner[i] is spaCy's result for the i-th valid entry
preprocess_articles(ner, st) ==
    LET articles == Get(st, "collected_articles", <<>>)
        valid == ValidOnes(articles)
        processed_articles ==
            [i \in 1..Len(valid) |-> ProcessedArticle(valid[i], ner[i])]
        stats ==
            [total_articles |-> Len(processed_articles),
             total_entities |-> SumLen(processed_articles, "entities"),
             total_persons |-> SumLen(processed_articles, "persons"),
             total_organizations |-> SumLen(processed_articles, "organizations"),
             total_locations |-> SumLen(processed_articles, "locations"),
             total_claims |-> SumLen(processed_articles, "claims"),
             avg_word_count |-> Fraction(SumOver(processed_articles, "word_count"),
                                         Len(processed_articles))]
    IN  IF articles = <<>>
        THEN [state |-> st, raised |-> FALSE,
              ret |-> [success |-> FALSE,
                       error |-> "No articles found in state. Run collectors first.",
                       processed_count |-> 0]]
        ELSE IF processed_articles = <<>>
        THEN [state |-> st, raised |-> FALSE,
              ret |-> [success |-> FALSE,
                       error |-> "No valid articles found to preprocess. All articles were invalid or skipped.",
                       processed_count |-> 0]]
        ELSE [state |-> Put(Put(st, "preprocessed_articles", processed_articles),
                            "preprocessing_stats", stats),
              raised |-> FALSE,
              ret |-> [success |-> TRUE,
                       processed_count |-> Len(processed_articles),
                       total_entities |-> stats.total_entities,
                       total_persons |-> stats.total_persons,
                       total_organizations |-> stats.total_organizations,
                       total_locations |-> stats.total_locations,
                       total_claims |-> stats.total_claims,
                       sample_persons |-> Sample(processed_articles, "persons"),
                       sample_organizations |-> Sample(processed_articles, "organizations"),
                       sample_locations |-> Sample(processed_articles, "locations"),
                       using_spacy |-> SPACY_AVAILABLE]]

-----------------------------------------------------------------------------
(* score_article_credibility and flag_dubious_claims *)

\* the source credibility table, one row per key, in the order of the source
SOURCE_CREDIBILITY == <<
    [name |-> <<"N", "P", "R">>,
     credibility_score |-> 85, political_bias |-> "center-left", bias_score |-> 3,
     fact_accuracy |-> "high",
     notes |-> "Public broadcaster with strong fact-checking standards"],
    [name |-> <<"B", "B", "C">>,
     credibility_score |-> 88, political_bias |-> "center", bias_score |-> 2,
     fact_accuracy |-> "very high",
     notes |-> "International public broadcaster with rigorous editorial standards"],
    [name |-> <<"R", "e", "u", "t", "e", "r", "s">>,
     credibility_score |-> 90, political_bias |-> "center", bias_score |-> 1,
     fact_accuracy |-> "very high",
     notes |-> "International news agency focused on factual reporting"],
    [name |-> <<"A", "s", "s", "o", "c", "i", "a", "t", "e", "d", " ", "P", "r", "e", "s", "s">>,
     credibility_score |-> 90, political_bias |-> "center", bias_score |-> 1,
     fact_accuracy |-> "very high",
     notes |-> "Cooperative news agency with high editorial standards"],
    [name |-> <<"A", "P">>,
     credibility_score |-> 90, political_bias |-> "center", bias_score |-> 1,
     fact_accuracy |-> "very high",
     notes |-> "Associated Press - high editorial standards"],
    [name |-> <<"T", "h", "e", " ", "W", "a", "l", "l", " ", "S", "t", "r", "e", "e", "t", " ", "J", "o", "u", "r", "n", "a", "l">>,
     credibility_score |-> 82, political_bias |-> "center-right", bias_score |-> 3,
     fact_accuracy |-> "high",
     notes |-> "Business-focused with strong reporting (opinion pages lean right)"],
    [name |-> <<"T", "h", "e", " ", "N", "e", "w", " ", "Y", "o", "r", "k", " ", "T", "i", "m", "e", "s">>,
     credibility_score |-> 78, political_bias |-> "center-left", bias_score |-> 4,
     fact_accuracy |-> "high",
     notes |-> "Major newspaper with thorough reporting; some editorial lean"],
    [name |-> <<"T", "h", "e", " ", "W", "a", "s", "h", "i", "n", "g", "t", "o", "n", " ", "P", "o", "s", "t">>,
     credibility_score |-> 76, political_bias |-> "center-left", bias_score |-> 4,
     fact_accuracy |-> "high",
     notes |-> "Strong investigative journalism; editorial lean"],
    [name |-> <<"C", "N", "N">>,
     credibility_score |-> 72, political_bias |-> "center-left", bias_score |-> 4,
     fact_accuracy |-> "generally factual",
     notes |-> "Cable news network with center-left editorial perspective"],
    [name |-> <<"T", "h", "e", " ", "G", "u", "a", "r", "d", "i", "a", "n">>,
     credibility_score |-> 74, political_bias |-> "left", bias_score |-> 5,
     fact_accuracy |-> "generally factual",
     notes |-> "British newspaper with progressive editorial stance"],
    [name |-> <<"P", "o", "l", "i", "t", "i", "c", "o">>,
     credibility_score |-> 75, political_bias |-> "center", bias_score |-> 3,
     fact_accuracy |-> "high",
     notes |-> "Political journalism focused on policy and Washington"],
    [name |-> <<"T", "h", "e", " ", "I", "n", "d", "e", "p", "e", "n", "d", "e", "n", "t">>,
     credibility_score |-> 70, political_bias |-> "center-left", bias_score |-> 4,
     fact_accuracy |-> "generally factual",
     notes |-> "British newspaper with center-left perspective"],
    [name |-> <<"F", "i", "n", "a", "n", "c", "i", "a", "l", " ", "T", "i", "m", "e", "s">>,
     credibility_score |-> 80, political_bias |-> "center", bias_score |-> 2,
     fact_accuracy |-> "high",
     notes |-> "International business newspaper with strong economic analysis"],
    [name |-> <<"E", "S", "P", "N">>,
     credibility_score |-> 65, political_bias |-> "center", bias_score |-> 1,
     fact_accuracy |-> "factual",
     notes |-> "Sports journalism - credibility for sports, not political news"],
    [name |-> <<"T", "h", "e", " ", "W", "h", "i", "t", "e", " ", "H", "o", "u", "s", "e", " ", "(", ".", "g", "o", "v", ")">>,
     credibility_score |-> 75, political_bias |-> "government", bias_score |-> 5,
     fact_accuracy |-> "official",
     notes |-> "Official government source - factual but reflects current administration"],
    [name |-> <<"U", "n", "k", "n", "o", "w", "n">>,
     credibility_score |-> 60, political_bias |-> "unknown", bias_score |-> 5,
     fact_accuracy |-> "unknown",
     notes |-> "Source not in credibility database"] >>

UnknownName == <<"U", "n", "k", "n", "o", "w", "n">>

\* variant: the table is searched without regard to letter case
CredDataIgnoringCase(source) ==
    IF \E i \in 1..Len(SOURCE_CREDIBILITY) : Lower(SOURCE_CREDIBILITY[i].name) = Lower(source)
    THEN SOURCE_CREDIBILITY[CHOOSE i \in 1..Len(SOURCE_CREDIBILITY) :
                               Lower(SOURCE_CREDIBILITY[i].name) = Lower(source)]
    ELSE SOURCE_CREDIBILITY[CHOOSE i \in 1..Len(SOURCE_CREDIBILITY) :
                               SOURCE_CREDIBILITY[i].name = UnknownName]

\* SOURCE_CREDIBILITY.get(source, SOURCE_CREDIBILITY['Unknown'])
CredData(source) ==
    IF \E i \in 1..Len(SOURCE_CREDIBILITY) : SOURCE_CREDIBILITY[i].name = source
    THEN SOURCE_CREDIBILITY[CHOOSE i \in 1..Len(SOURCE_CREDIBILITY) :
                               SOURCE_CREDIBILITY[i].name = source]
    ELSE SOURCE_CREDIBILITY[CHOOSE i \in 1..Len(SOURCE_CREDIBILITY) :
                               SOURCE_CREDIBILITY[i].name = UnknownName]

HighCredibilityFrom == 80
MediumCredibilityFrom == 60
HighBiasFrom == 7
LowBiasBelow == 4

\* variant: scores the article already carries are kept
ScoredArticleKeepingScores(article) ==
    LET source == IF "source" \in DOMAIN article THEN article.source ELSE UnknownName
        cred_data == CredData(source)
    IN  Augmented([credibility_score |-> cred_data.credibility_score,
                   bias_score |-> cred_data.bias_score,
                   fact_accuracy_rating |-> cred_data.fact_accuracy,
                   credibility_notes |-> cred_data.notes],
                  article)

ScoredArticle(article) ==
    LET source == IF "source" \in DOMAIN article THEN article.source ELSE UnknownName
        cred_data == CredData(source)
    IN  Augmented(article,
            [credibility_score |-> cred_data.credibility_score,
             bias_score |-> cred_data.bias_score,
             fact_accuracy_rating |-> cred_data.fact_accuracy,
             credibility_notes |-> cred_data.notes])

\* how many entries of s satisfy Test
HowMany(s, Test(_)) == Cardinality({ i \in 1..Len(s) : Test(s[i]) })

CredibilityStats(scored) ==
    LET IsHigh(a) == a.credibility_score >= HighCredibilityFrom
        IsMedium(a) == ~IsHigh(a) /\ a.credibility_score >= MediumCredibilityFrom
        IsLow(a) == ~IsHigh(a) /\ ~IsMedium(a)
        IsHighBias(a) == a.bias_score >= HighBiasFrom
        IsLowBias(a) == ~IsHighBias(a) /\ a.bias_score < LowBiasBelow
    IN  [high_credibility |-> HowMany(scored, IsHigh),
         medium_credibility |-> HowMany(scored, IsMedium),
         low_credibility |-> HowMany(scored, IsLow),
         high_bias |-> HowMany(scored, IsHighBias),
         low_bias |-> HowMany(scored, IsLowBias)]

score_article_credibility(st) ==
    LET articles == Get(st, "preprocessed_articles", <<>>)
        valid == ValidOnes(articles)
        scored_articles == [i \in 1..Len(valid) |-> ScoredArticle(valid[i])]
        credibility_stats == CredibilityStats(scored_articles)
    IN  IF articles = <<>>
        THEN [state |-> st, raised |-> FALSE,
              ret |-> [success |-> FALSE,
                       error |-> "No preprocessed articles found. Run preprocessor first.",
                       scored_count |-> 0]]
        ELSE IF scored_articles = <<>>
        THEN [state |-> st, raised |-> FALSE,
              ret |-> [success |-> FALSE,
                       error |-> "No valid articles found to score. All articles were invalid or skipped.",
                       scored_count |-> 0]]
        ELSE [state |-> Put(Put(st, "fact_checked_articles", scored_articles),
                            "credibility_stats", credibility_stats),
              raised |-> FALSE,
              ret |-> [success |-> TRUE,
                       scored_count |-> Len(scored_articles),
                       credibility_stats |-> credibility_stats,
                       avg_credibility |-> Fraction(SumOver(scored_articles, "credibility_score"),
                                                    Len(scored_articles)),
                       avg_bias |-> Fraction(SumOver(scored_articles, "bias_score"),
                                             Len(scored_articles))]]

verification_keywords == {
    <<"r", "e", "p", "o", "r", "t", "e", "d", "l", "y">>,
    <<"a", "l", "l", "e", "g", "e", "d", "l", "y">>,
    <<"c", "l", "a", "i", "m", "s">>,
    <<"u", "n", "c", "o", "n", "f", "i", "r", "m", "e", "d">>,
    <<"s", "o", "u", "r", "c", "e", "s", " ", "s", "a", "y">>,
    <<"a", "n", "o", "n", "y", "m", "o", "u", "s">>,
    <<"r", "u", "m", "o", "r", "e", "d">>,
    <<"s", "p", "e", "c", "u", "l", "a", "t", "i", "o", "n">> }

\* article.get(key): the value, or None
None == "None"
GetOrNone(article, key) == IF key \in DOMAIN article THEN article[key] ELSE None

\* variant: the keywords are looked for in the claim as written
RECURSIVE FlaggedOfCaseSensitive(_, _, _)
FlaggedOfCaseSensitive(article, claims, i) ==
    IF i > Len(claims) THEN <<>>
    ELSE
        LET claim == claims[i]
            needs_verification ==
                \E keyword \in verification_keywords : Contains(claim, keyword)
            high_bias == Get(article, "bias_score", 0) >= HighBiasFrom
            rest == FlaggedOfCaseSensitive(article, claims, i + 1)
        IN  IF needs_verification \/ high_bias
            THEN << [claim |-> claim,
                     source |-> GetOrNone(article, "source"),
                     article_title |-> GetOrNone(article, "title"),
                     reason |-> IF needs_verification THEN "verification_keyword"
                                ELSE "high_bias_source",
                     credibility_score |-> GetOrNone(article, "credibility_score")] >> \o rest
            ELSE rest

\* the records the inner loop appends for one article
RECURSIVE FlaggedOf(_, _, _)
FlaggedOf(article, claims, i) ==
    IF i > Len(claims) THEN <<>>
    ELSE
        LET claim == claims[i]
            needs_verification ==
                \E keyword \in verification_keywords : Contains(Lower(claim), keyword)
            high_bias == Get(article, "bias_score", 0) >= HighBiasFrom
            rest == FlaggedOf(article, claims, i + 1)
        IN  IF needs_verification \/ high_bias
            THEN << [claim |-> claim,
                     source |-> GetOrNone(article, "source"),
                     article_title |-> GetOrNone(article, "title"),
                     reason |-> IF needs_verification THEN "verification_keyword"
                                ELSE "high_bias_source",
                     credibility_score |-> GetOrNone(article, "credibility_score")] >> \o rest
            ELSE rest

RECURSIVE FlagLoop(_)
FlagLoop(articles) ==
    IF articles = <<>> THEN <<>>
    ELSE IF ~IsDict(Head(articles)) THEN FlagLoop(Tail(articles))
    ELSE FlaggedOf(Head(articles), Get(Head(articles), "claims", <<>>), 1)
             \o FlagLoop(Tail(articles))

RECURSIVE TotalClaims(_)
TotalClaims(articles) ==
    IF articles = <<>> THEN 0
    ELSE IF ~IsDict(Head(articles)) THEN TotalClaims(Tail(articles))
    ELSE Len(Get(Head(articles), "claims", <<>>)) + TotalClaims(Tail(articles))

\* variant: the rate is computed without the guard on total_claims
FlagRateUnguarded(flagged_count, total_claims) == Fraction(flagged_count, total_claims)

\* len(flagged_claims) / total_claims if total_claims > 0 else 0
FlagRate(flagged_count, total_claims) ==
    IF total_claims > 0 THEN Fraction(flagged_count, total_claims) ELSE Fraction(0, 1)

\* variant: the early return on an empty list is missing
flag_dubious_claims_on_nothing(st) ==
    LET articles == Get(st, "fact_checked_articles", <<>>)
        flagged_claims == FlagLoop(articles)
        total_claims == TotalClaims(articles)
    IN  [state |-> Put(st, "flagged_claims", flagged_claims),
         raised |-> FALSE,
         ret |-> [success |-> TRUE,
                  total_claims |-> total_claims,
                  flagged_count |-> Len(flagged_claims),
                  flag_rate |-> FlagRate(Len(flagged_claims), total_claims),
                  sample_flagged |-> PySlice(flagged_claims, 3)]]

flag_dubious_claims(st) ==
    LET articles == Get(st, "fact_checked_articles", <<>>)
        flagged_claims == FlagLoop(articles)
        total_claims == TotalClaims(articles)
    IN  IF articles = <<>>
        THEN [state |-> st, raised |-> FALSE,
              ret |-> [success |-> FALSE,
                       error |-> "No fact-checked articles found.",
                       flagged_count |-> 0]]
        ELSE [state |-> Put(st, "flagged_claims", flagged_claims),
              raised |-> FALSE,
              ret |-> [success |-> TRUE,
                       total_claims |-> total_claims,
                       flagged_count |-> Len(flagged_claims),
                       flag_rate |-> FlagRate(Len(flagged_claims), total_claims),
                       sample_flagged |-> PySlice(flagged_claims, 3)]]

-----------------------------------------------------------------------------
(* analyze_sentiment, detect_political_bias, extract_keywords *)

\* TextBlob's polarity and subjectivity of a text are the library's business.
\* They are written in thousandths; the results it may give are these.
Sentiments ==
    { [polarity |-> 0 - 200, subjectivity |-> 500],
      [polarity |-> 100, subjectivity |-> 0],
      [polarity |-> 300, subjectivity |-> 1000] }

PositiveAbove == 100
NegativeBelow == 0 - 100

\* round(total / count, places) on values written in units of the last place
\* kept (the modelled values never fall half-way between two such units)
RoundDiv(total, count) == (2 * total + count) \div (2 * count)

SentimentCategory(polarity) ==
    IF polarity > PositiveAbove THEN "positive"
    ELSE IF polarity < NegativeBelow THEN "negative"
    ELSE "neutral"

AnalyzedArticle(article, blob) ==
    Augmented(article,
        [sentiment_polarity |-> blob.polarity,
         sentiment_subjectivity |-> blob.subjectivity,
         sentiment_category |-> SentimentCategory(blob.polarity)])

\* the whole call; blobs[i] is TextBlob's result for the i-th valid entry
analyze_sentiment(blobs, st) ==
    LET articles == Get(st, "fact_checked_articles", <<>>)
        valid == ValidOnes(articles)
        analyzed_articles == [i \in 1..Len(valid) |-> AnalyzedArticle(valid[i], blobs[i])]
        IsPositive(a) == a.sentiment_category = "positive"
        IsNegative(a) == a.sentiment_category = "negative"
        IsNeutral(a) == a.sentiment_category = "neutral"
        sentiment_stats ==
            [positive |-> HowMany(analyzed_articles, IsPositive),
             negative |-> HowMany(analyzed_articles, IsNegative),
             neutral |-> HowMany(analyzed_articles, IsNeutral)]
        total_polarity == SumOver(analyzed_articles, "sentiment_polarity")
        total_subjectivity == SumOver(analyzed_articles, "sentiment_subjectivity")
    IN  IF articles = <<>>
        THEN [state |-> st, raised |-> FALSE,
              ret |-> [success |-> FALSE,
                       error |-> "No fact-checked articles found. Run fact checker first.",
                       analyzed_count |-> 0]]
        ELSE IF analyzed_articles = <<>>
        THEN [state |-> st, raised |-> FALSE,
              ret |-> [success |-> FALSE,
                       error |-> "No valid articles found to analyze. All articles were invalid or skipped.",
                       analyzed_count |-> 0]]
        ELSE [state |->
                  Put(Put(st, "nlp_analyzed_articles", analyzed_articles),
                      "sentiment_stats",
                      Augmented(sentiment_stats,
                          [avg_polarity |-> RoundDiv(total_polarity, Len(analyzed_articles)),
                           avg_subjectivity |->
                               RoundDiv(total_subjectivity, Len(analyzed_articles))])),
              raised |-> FALSE,
              ret |-> [success |-> TRUE,
                       analyzed_count |-> Len(analyzed_articles),
                       sentiment_distribution |-> sentiment_stats,
                       avg_polarity |-> RoundDiv(total_polarity, Len(articles)),
                       avg_subjectivity |-> RoundDiv(total_subjectivity, Len(articles))]]

left_keywords == {
    <<"p", "r", "o", "g", "r", "e", "s", "s", "i", "v", "e">>,
    <<"r", "e", "f", "o", "r", "m">>,
    <<"e", "q", "u", "a", "l", "i", "t", "y">>,
    <<"c", "l", "i", "m", "a", "t", "e">>,
    <<"h", "e", "a", "l", "t", "h", "c", "a", "r", "e">>,
    <<"w", "o", "r", "k", "e", "r", "s">>,
    <<"r", "e", "g", "u", "l", "a", "t", "i", "o", "n">>,
    <<"d", "i", "s", "c", "r", "i", "m", "i", "n", "a", "t", "i", "o", "n">>,
    <<"r", "i", "g", "h", "t", "s">>,
    <<"j", "u", "s", "t", "i", "c", "e">> }

right_keywords == {
    <<"c", "o", "n", "s", "e", "r", "v", "a", "t", "i", "v", "e">>,
    <<"t", "r", "a", "d", "i", "t", "i", "o", "n", "a", "l">>,
    <<"f", "r", "e", "e", "d", "o", "m">>,
    <<"s", "e", "c", "u", "r", "i", "t", "y">>,
    <<"b", "o", "r", "d", "e", "r">>,
    <<"t", "a", "x">>,
    <<"d", "e", "r", "e", "g", "u", "l", "a", "t", "i", "o", "n">>,
    <<"l", "a", "w", " ", "a", "n", "d", " ", "o", "r", "d", "e", "r">>,
    <<"v", "a", "l", "u", "e", "s">>,
    <<"p", "a", "t", "r", "i", "o", "t">> }

emotional_words == {
    <<"c", "r", "i", "s", "i", "s">>,
    <<"d", "i", "s", "a", "s", "t", "e", "r">>,
    <<"t", "h", "r", "e", "a", "t">>,
    <<"d", "a", "n", "g", "e", "r", "o", "u", "s">>,
    <<"a", "t", "t", "a", "c", "k">>,
    <<"d", "e", "s", "t", "r", "o", "y">>,
    <<"s", "c", "a", "n", "d", "a", "l">>,
    <<"c", "o", "r", "r", "u", "p", "t">>,
    <<"f", "a", "i", "l", "i", "n", "g">>,
    <<"r", "a", "d", "i", "c", "a", "l">>,
    <<"e", "x", "t", "r", "e", "m", "e">> }

\* sum(1 for keyword in keywords if keyword in text_lower)
KeywordHits(keywords, text_lower) ==
    Cardinality({ keyword \in keywords : Contains(text_lower, keyword) })

\* source.replace(' ', '_').lower()
SourceKey(source) ==
    Lower([i \in 1..Len(source) |-> IF source[i] = " " THEN "_" ELSE source[i]])

\* the article after the loop body has assigned its four bias fields
BiasedArticle(article) ==
    LET text_lower == Lower(Get(article, "clean_text", <<>>))
        left_count == KeywordHits(left_keywords, text_lower)
        right_count == KeywordHits(right_keywords, text_lower)
    IN  Augmented(article,
            [bias_direction |-> IF left_count > right_count THEN "left-leaning"
                                ELSE IF right_count > left_count THEN "right-leaning"
                                ELSE "neutral",
             left_keyword_count |-> left_count,
             right_keyword_count |-> right_count,
             emotional_language_count |-> KeywordHits(emotional_words, text_lower)])

\* bias_analysis: one row per source key, summed over the articles of the key
BiasAnalysis(biased) ==
    LET KeyOf(a) == SourceKey(Get(a, "source", <<>>))
        keys == { KeyOf(biased[i]) : i \in 1..Len(biased) }
        Of(key) == SelectSeq(biased, LAMBDA a : KeyOf(a) = key)
    IN  [key \in keys |->
            [left_signals |-> SumOver(Of(key), "left_keyword_count"),
             right_signals |-> SumOver(Of(key), "right_keyword_count"),
             emotional_language |-> SumOver(Of(key), "emotional_language_count"),
             articles |-> Len(Of(key)),
             display_name |-> Get(Of(key)[1], "source", <<>>)]]

\* the whole call.  The loop assigns the bias fields on the records of the
\* list it read, and that same list is then stored under the new key: the
\* list under 'nlp_analyzed_articles' is the list under 'bias_analyzed_articles'.
detect_political_bias(st) ==
    LET articles == Get(st, "nlp_analyzed_articles", <<>>)
        updated == [i \in 1..Len(articles) |->
                       IF IsDict(articles[i]) THEN BiasedArticle(articles[i])
                       ELSE articles[i]]
        bias_analysis == BiasAnalysis(ValidOnes(updated))
    IN  IF articles = <<>>
        THEN [state |-> st, raised |-> FALSE,
              ret |-> [success |-> FALSE,
                       error |-> "No NLP analyzed articles found. Run sentiment analysis first.",
                       analyzed_count |-> 0]]
        ELSE [state |-> Put(Put(Put(st, "nlp_analyzed_articles", updated),
                                "bias_analyzed_articles", updated),
                            "bias_analysis", bias_analysis),
              raised |-> FALSE,
              ret |-> [success |-> TRUE,
                       analyzed_count |-> Len(articles),
                       total_sources |-> Cardinality(DOMAIN bias_analysis),
                       sources |->
                           [key \in DOMAIN bias_analysis |->
                               LET data == bias_analysis[key]
                               IN  [display_name |-> data.display_name,
                                    articles |-> data.articles,
                                    avg_left_signals |->
                                        RoundDiv(100 * data.left_signals, Max(1, data.articles)),
                                    avg_right_signals |->
                                        RoundDiv(100 * data.right_signals, Max(1, data.articles)),
                                    avg_emotional |->
                                        RoundDiv(100 * data.emotional_language,
                                                 Max(1, data.articles))]]]]

stopwords == {
    <<"t", "h", "a", "t">>,
    <<"t", "h", "i", "s">>,
    <<"w", "i", "t", "h">>,
    <<"f", "r", "o", "m">>,
    <<"h", "a", "v", "e">>,
    <<"b", "e", "e", "n">>,
    <<"t", "h", "e", "i", "r">>,
    <<"s", "a", "i", "d">>,
    <<"w", "i", "l", "l">>,
    <<"w", "e", "r", "e">>,
    <<"w", "h", "a", "t">>,
    <<"w", "o", "u", "l", "d">>,
    <<"t", "h", "e", "r", "e">>,
    <<"a", "b", "o", "u", "t">>,
    <<"w", "h", "i", "c", "h">>,
    <<"w", "h", "e", "n">>,
    <<"t", "h", "e", "y">>,
    <<"m", "o", "r", "e">>,
    <<"t", "h", "a", "n">>,
    <<"o", "t", "h", "e", "r">>,
    <<"s", "o", "m", "e">>,
    <<"i", "n", "t", "o">>,
    <<"c", "o", "u", "l", "d">>,
    <<"o", "n", "l", "y">> }

Digits == {"0", "1", "2", "3", "4", "5", "6", "7", "8", "9"}

IsLowerLetter(c) == \E i \in 1..Len(LowerCase) : LowerCase[i] = c

\* the characters the regex class \w matches, in ASCII
IsWordChar(c) ==
    \/ IsLowerLetter(c)
    \/ \E i \in 1..Len(UpperCase) : UpperCase[i] = c
    \/ c \in Digits
    \/ c = "_"

MinKeywordLetters == 4
TopKeywordCount == 20
ReturnedKeywordCount == 10

\* re.findall(r'\b[a-z]{4,}\b', s): the maximal runs of word characters that
\* are made of lower-case letters only and are at least four long
RECURSIVE FindWords(_)
FindWords(s) ==
    IF s = <<>> THEN <<>>
    ELSE IF ~IsWordChar(Head(s)) THEN FindWords(Tail(s))
    ELSE
        LET n == CHOOSE k \in 1..Len(s) :
                     /\ \A j \in 1..k : IsWordChar(s[j])
                     /\ (k = Len(s) \/ ~IsWordChar(s[k + 1]))
            run == SubSeq(s, 1, n)
            rest == FindWords(SubSeq(s, n + 1, Len(s)))
        IN  IF n >= MinKeywordLetters /\ \A j \in 1..n : IsLowerLetter(run[j])
            THEN <<run>> \o rest
            ELSE rest

\* ' '.join(texts)
RECURSIVE JoinWithSpace(_)
JoinWithSpace(texts) ==
    IF texts = <<>> THEN <<>>
    ELSE IF Len(texts) = 1 THEN texts[1]
    ELSE texts[1] \o <<" ">> \o JoinWithSpace(Tail(texts))

\* Counter(words).most_common(): the distinct words with their counts, the
\* more frequent first and, among equally frequent ones, the earlier met first
MostCommon(words) ==
    LET First(w) == CHOOSE i \in 1..Len(words) :
                        words[i] = w /\ \A j \in 1..(i - 1) : words[j] # w
        Count(w) == Cardinality({ i \in 1..Len(words) : words[i] = w })
        distinct == { words[i] : i \in 1..Len(words) }
        Before(v, w) == Count(v) > Count(w) \/ (Count(v) = Count(w) /\ First(v) < First(w))
        Rank(w) == 1 + Cardinality({ v \in distinct : Before(v, w) })
    IN  [r \in 1..Cardinality(distinct) |->
            LET w == CHOOSE v \in distinct : Rank(v) = r
            IN  <<w, Count(w)>>]

\* the whole call.  article.get on an entry that is not a dict raises
\* AttributeError, and nothing in the function catches it.
extract_keywords(st) ==
    LET articles == Get(st, "bias_analyzed_articles", <<>>)
        all_text == Lower(JoinWithSpace(
                        [i \in 1..Len(articles) |-> Get(articles[i], "clean_text", <<>>)]))
        filtered_words == SelectSeq(FindWords(all_text), LAMBDA w : w \notin stopwords)
        word_counts == MostCommon(filtered_words)
        top_keywords == PySlice(word_counts, TopKeywordCount)
    IN  IF articles = <<>>
        THEN [state |-> st, raised |-> FALSE,
              ret |-> [success |-> FALSE,
                       error |-> "No bias analyzed articles found.",
                       keyword_count |-> 0]]
        ELSE IF \E i \in 1..Len(articles) : ~IsDict(articles[i])
        THEN [state |-> st, raised |-> TRUE,
              ret |-> [exception |-> "AttributeError"]]
        ELSE [state |-> Put(st, "top_keywords", top_keywords),
              raised |-> FALSE,
              ret |-> [success |-> TRUE,
                       keyword_count |-> Len(word_counts),
                       top_keywords |->
                           [i \in 1..Min(ReturnedKeywordCount, Len(top_keywords)) |->
                               [word |-> top_keywords[i][1], count |-> top_keywords[i][2]]]]]

-----------------------------------------------------------------------------
(* get_analysis_results *)

\* the characters of the modelled texts, in code point order
CodePointOrder ==
    <<"\n", " ", "!", "(", ")", "-", ".", "0", "1", "2", "3", "4", "5", "6", "7", "8", "9", "?", "A", "B", "C", "D", "E", "F", "G", "H", "I", "J", "K", "L", "M", "N", "O", "P", "Q", "R", "S", "T", "U", "V", "W", "X", "Y", "Z", "_", "a", "b", "c", "d", "e", "f", "g", "h", "i", "j", "k", "l", "m", "n", "o", "p", "q", "r", "s", "t", "u", "v", "w", "x", "y", "z">>

CodePoint(c) == CHOOSE i \in 1..Len(CodePointOrder) : CodePointOrder[i] = c

\* s < t for Python strings
StrLess(s, t) ==
    \E k \in 1..(Len(t)) :
        /\ k <= Len(s) + 1
        /\ \A j \in 1..(k - 1) : s[j] = t[j]
        /\ (k = Len(s) + 1 \/ CodePoint(s[k]) < CodePoint(t[k]))

\* sorted(list(S)) for a set of strings
Sorted(S) ==
    [r \in 1..Cardinality(S) |->
        CHOOSE x \in S : Cardinality({ y \in S : StrLess(y, x) }) = r - 1]

\* datetime.now().strftime('%Y-%m-%d'): the local day, counted in days
CurrentDate(off) == LocalNow(off) \div 24

\* variant: the credibility-scored list is probed before the sentiment one
MostEnrichedScoredFirst(st) ==
    LET bias == Get(st, "bias_analyzed_articles", <<>>)
        checked == Get(st, "fact_checked_articles", <<>>)
        nlp == Get(st, "nlp_analyzed_articles", <<>>)
        preprocessed == Get(st, "preprocessed_articles", <<>>)
    IN  IF bias # <<>> THEN bias
        ELSE IF checked # <<>> THEN checked
        ELSE IF nlp # <<>> THEN nlp
        ELSE IF preprocessed # <<>> THEN preprocessed
        ELSE Get(st, "collected_articles", <<>>)

\* the chain of 'if not bias_analyzed_articles:' fallbacks
MostEnriched(st) ==
    LET bias == Get(st, "bias_analyzed_articles", <<>>)
        nlp == Get(st, "nlp_analyzed_articles", <<>>)
        checked == Get(st, "fact_checked_articles", <<>>)
        preprocessed == Get(st, "preprocessed_articles", <<>>)
    IN  IF bias # <<>> THEN bias
        ELSE IF nlp # <<>> THEN nlp
        ELSE IF checked # <<>> THEN checked
        ELSE IF preprocessed # <<>> THEN preprocessed
        ELSE Get(st, "collected_articles", <<>>)

get_analysis_results(off, st) ==
    LET bias_analyzed_articles == MostEnriched(st)
        google_news_articles ==
            SelectSeq(bias_analyzed_articles,
                      LAMBDA a : IsDict(a) /\ Contains(Get(a, "source", <<>>), GoogleNewsName))
        named == { Get(google_news_articles[i], "original_source", UnknownName) :
                     i \in 1..Len(google_news_articles) }
        original_sources == named \ {<<>>, UnknownName}
    IN  [state |-> st, raised |-> FALSE,
         ret |-> [success |-> TRUE,
                  current_date |-> CurrentDate(off),
                  total_articles |-> Len(bias_analyzed_articles),
                  google_news_count |-> Len(google_news_articles),
                  original_sources |-> Sorted(original_sources),
                  source_diversity |-> Cardinality(original_sources),
                  articles |-> bias_analyzed_articles,
                  sentiment_stats |-> Get(st, "sentiment_stats", EmptyDict),
                  bias_analysis |-> Get(st, "bias_analysis", EmptyDict),
                  top_keywords |-> Get(st, "top_keywords", <<>>),
                  credibility_stats |-> Get(st, "credibility_stats", EmptyDict),
                  flagged_claims |-> Get(st, "flagged_claims", <<>>)]]

-----------------------------------------------------------------------------
(* The enrichment run: a session state handed in, then tool calls *)

TextA ==
    <<"R", "e", "p", "o", "r", "t", "e", "d", "l", "y", " ", "t", "h", "e", " ", " ", "m", "a", "y", "o", "r", " ", "s", "a", "i", "d", " ", "t", "a", "x", "e", "s", " ", "r", "i", "s", "e", ".", " ", "H", "e", " ", "s", "a", "i", "d", " ", "n", "o", "!">>
TextB ==
    <<"T", "h", "e", " ", "m", "i", "n", "i", "s", "t", "e", "r", " ", "a", "n", "n", "o", "u", "n", "c", "e", "d", " ", "a", " ", "c", "l", "i", "m", "a", "t", "e", " ", "r", "e", "f", "o", "r", "m", " ", "p", "l", "a", "n", ".">>
TextC ==
    <<"C", "r", "i", "s", "i", "s", " ", "t", "a", "l", "k", "s", " ", "g", "o", " ", "o", "n">>
PlainClaim ==
    <<"t", "h", "e", " ", "m", "a", "y", "o", "r", " ", "s", "a", "i", "d", " ", "t", "a", "x", "e", "s", " ", "r", "i", "s", "e">>
HedgedClaim ==
    <<"S", "o", "u", "r", "c", "e", "s", " ", "S", "a", "y", " ", "t", "h", "e", " ", "v", "o", "t", "e", " ", "f", "a", "i", "l", "e", "d">>
LowerReutersName ==
    <<"r", "e", "u", "t", "e", "r", "s">>

\* an article as the aggregator collector stores it
RawArticle(title, source, category, text) ==
    [title |-> title, source |-> source, aggregator |-> "Google News",
     original_source |-> source, region |-> IF category = "europe" THEN "EU/International" ELSE "US",
     category |-> category, timestamp |-> NowUTC, description |-> text, text |-> text]

\* entries of a seeded collected_articles list: stored articles, a record with
\* a title and nothing else, and a value that is not a record
RawItems ==
    { RawArticle(<<"a">>, ReutersName, "politics", TextA),
      RawArticle(<<"b">>, LowerReutersName, "technology", TextB),
      RawArticle(<<"c">>, GoogleNewsName, "europe", TextC),
      [title |-> <<"d">>],
      NonRecord }

\* entries of a seeded fact_checked_articles list: records with claims and
\* the bias score the caller gave them
CheckedItems ==
    { [title |-> <<"a">>, source |-> FoxName, claims |-> <<PlainClaim>>,
       bias_score |-> HighBiasFrom, credibility_score |-> 50],
      [title |-> <<"b">>, source |-> CnnName, claims |-> <<PlainClaim, HedgedClaim>>,
       bias_score |-> HighBiasFrom - 1, credibility_score |-> 72],
      [title |-> <<"d">>],
      NonRecord }

\* entries of a seeded preprocessed_articles list: records with claims, one of
\* them carrying scores from an earlier scoring
PreprocessedItems ==
    { [title |-> <<"a">>, source |-> FoxName, claims |-> <<PlainClaim>>,
       bias_score |-> HighBiasFrom, credibility_score |-> 50],
      [title |-> <<"b">>, source |-> CnnName, claims |-> <<PlainClaim, HedgedClaim>>] }

\* entries of a seeded nlp_analyzed_articles list
AnalyzedItems ==
    { [title |-> <<"a">>, source |-> GoogleNewsName, clean_text |-> TextB,
       sentiment_polarity |-> 100, sentiment_subjectivity |-> 0,
       sentiment_category |-> "neutral"],
      NonRecord }

\* the session states a run starts from: nothing, or one stage list put there
\* by the caller
SeededStates ==
    {EmptyDict}
    \cup { Put(EmptyDict, "collected_articles", l) : l \in SeqsUpTo(RawItems, MaxStageList) }
    \cup { Put(EmptyDict, "fact_checked_articles", l) : l \in SeqsUpTo(CheckedItems, MaxStageList) }
    \cup { Put(EmptyDict, "nlp_analyzed_articles", l) : l \in SeqsUpTo(AnalyzedItems, MaxStageList) }
    \cup { Put(EmptyDict, "preprocessed_articles", l) : l \in SeqsUpTo(PreprocessedItems, MaxStageList) }
    \cup { Put(EmptyDict, "bias_analyzed_articles", <<>>) }

InitEnrich ==
    /\ state \in SeededStates
    /\ last = NoCall
    /\ tz = 0
    /\ calls = 0
    /\ queries = 0
    /\ seen = 0
    /\ runner = NoRun
    /\ daemon = NoDaemon

\* a tool call that takes no argument; r is what the tool computed
RecordTool(fn, r) ==
    /\ state' = r.state
    /\ last' = [fn |-> fn, arg |-> "", max_articles |-> 0, feed |-> Served(<<>>),
                pre |-> state, stored |-> r.state # state, batch |-> <<>>, ret |-> r.ret]
    /\ calls' = calls + 1
    /\ UNCHANGED <<tz, queries, seen, runner, daemon>>

ToolIdle ==
    /\ last = NoCall
    /\ calls < MaxToolCalls

\* the number of valid entries under a key
ValidCount(key) == Len(ValidOnes(Get(state, key, <<>>)))

PreprocessArticles ==
    /\ ToolIdle
    /\ \E ner \in [1..ValidCount("collected_articles") -> EntityResults] :
          RecordTool("preprocess_articles", preprocess_articles(ner, state))

ScoreArticleCredibility ==
    /\ ToolIdle
    /\ RecordTool("score_article_credibility", score_article_credibility(state))

FlagDubiousClaims ==
    /\ ToolIdle
    /\ RecordTool("flag_dubious_claims", flag_dubious_claims(state))

AnalyzeSentiment ==
    /\ ToolIdle
    /\ \E blobs \in [1..ValidCount("fact_checked_articles") -> Sentiments] :
          RecordTool("analyze_sentiment", analyze_sentiment(blobs, state))

DetectPoliticalBias ==
    /\ ToolIdle
    /\ RecordTool("detect_political_bias", detect_political_bias(state))

ExtractKeywords ==
    /\ ToolIdle
    /\ RecordTool("extract_keywords", extract_keywords(state))

GetAnalysisResults ==
    /\ ToolIdle
    /\ RecordTool("get_analysis_results", get_analysis_results(tz, state))

NextEnrich ==
    \/ Return
    \/ PreprocessArticles
    \/ ScoreArticleCredibility
    \/ FlagDubiousClaims
    \/ AnalyzeSentiment
    \/ DetectPoliticalBias
    \/ ExtractKeywords
    \/ GetAnalysisResults

SpecEnrich == InitEnrich /\ [][NextEnrich]_vars

-----------------------------------------------------------------------------
(* send_email_digest *)

\* the character U+0060 of a code fence
Backtick == "backtick"
Fence == <<Backtick, Backtick, Backtick>>
HtmlFence == Fence \o <<"h", "t", "m", "l">>

\* s.startswith(p) is IsPrefix(p, s); s.endswith(p)
IsSuffix(p, s) == Len(p) <= Len(s) /\ SubSeq(s, Len(s) - Len(p) + 1, Len(s)) = p

\* variant: a fence at the end of the digest is left in place
CleanDigestKeepingTail(digest_html) ==
    LET d0 == Strip(digest_html)
        d1 == IF Len(HtmlFence) <= Len(d0) /\ SubSeq(d0, 1, Len(HtmlFence)) = HtmlFence
              THEN SubSeq(d0, 8, Len(d0)) ELSE d0
        d2 == IF Len(Fence) <= Len(d1) /\ SubSeq(d1, 1, Len(Fence)) = Fence
              THEN SubSeq(d1, 4, Len(d1)) ELSE d1
    IN  Strip(d2)

\* the clean-up of markdown code fences
CleanDigest(digest_html) ==
    LET d0 == Strip(digest_html)
        d1 == IF Len(HtmlFence) <= Len(d0) /\ SubSeq(d0, 1, Len(HtmlFence)) = HtmlFence
              THEN SubSeq(d0, 8, Len(d0)) ELSE d0
        d2 == IF Len(Fence) <= Len(d1) /\ SubSeq(d1, 1, Len(Fence)) = Fence
              THEN SubSeq(d1, 4, Len(d1)) ELSE d1
        d3 == IF IsSuffix(Fence, d2) THEN SubSeq(d2, 1, Len(d2) - 3) ELSE d2
    IN  Strip(d3)

\* what the SMTP server or the Gmail API does with a message: it takes it, or
\* the call raises with this text
Transports == {"sent", "refused", "timed out"}

\* what authenticate_gmail does: it returns credentials, or None, or the
\* refresh of expired credentials raises with this text
AuthOutcomes == {"creds", "none", "refresh failed"}

MessageId == "message id"

\* variant: the confirmation is stored before the message is handed over
send_via_smtp_confirming_first(gmail_address, gmail_password, recipient_email, digest_html, transport, off, st) ==
    LET message == [From |-> gmail_address, To |-> recipient_email,
                    Subject |-> <<"MANIS Daily News Digest - ", CurrentDate(off)>>,
                    html |-> digest_html]
        confirmed == Put(Put(st, "email_sent", TRUE), "email_method", "smtp")
    IN  IF transport = "sent"
        THEN [state |-> confirmed, handed |-> <<message>>,
              ret |-> [success |-> TRUE, method |-> "smtp", recipient |-> recipient_email,
                       sent_at |-> LocalNow(off)]]
        ELSE [state |-> confirmed, handed |-> <<message>>,
              ret |-> [success |-> FALSE,
                       error |-> <<"Failed to send email via SMTP: ", transport>>]]

send_via_smtp(gmail_address, gmail_password, recipient_email, digest_html, transport, off, st) ==
    LET message == [From |-> gmail_address, To |-> recipient_email,
                    Subject |-> <<"MANIS Daily News Digest - ", CurrentDate(off)>>,
                    html |-> digest_html]
    IN  IF transport = "sent"
        THEN [state |-> Put(Put(st, "email_sent", TRUE), "email_method", "smtp"),
              handed |-> <<message>>,
              ret |-> [success |-> TRUE, method |-> "smtp", recipient |-> recipient_email,
                       sent_at |-> LocalNow(off)]]
        ELSE [state |-> st, handed |-> <<message>>,
              ret |-> [success |-> FALSE,
                       error |-> <<"Failed to send email via SMTP: ", transport>>]]

send_via_gmail_api(recipient_email, digest_html, gmail_available, auth, transport, off, st) ==
    LET message == [to |-> recipient_email,
                    subject |-> <<"MANIS Daily News Digest - ", CurrentDate(off)>>,
                    html |-> digest_html]
    IN  IF ~gmail_available
        THEN [state |-> st, handed |-> <<>>,
              ret |-> [success |-> FALSE,
                       error |-> <<"Gmail API libraries not installed. Use SMTP method instead or install: pip install google-api-python-client google-auth-oauthlib">>]]
        ELSE IF auth = "none"
        THEN [state |-> st, handed |-> <<>>,
              ret |-> [success |-> FALSE,
                       error |-> <<"Gmail authentication failed. Run Gmail OAuth setup first, or use SMTP method with app password.">>]]
        ELSE IF auth # "creds"
        THEN [state |-> st, handed |-> <<>>,
              ret |-> [success |-> FALSE,
                       error |-> <<"Failed to send email via Gmail API: ", auth>>]]
        ELSE IF transport = "sent"
        THEN [state |-> Put(Put(Put(st, "email_sent", TRUE),
                                "email_message_id", MessageId),
                            "email_method", "gmail_api"),
              handed |-> <<message>>,
              ret |-> [success |-> TRUE, method |-> "gmail_api", message_id |-> MessageId,
                       recipient |-> recipient_email, sent_at |-> LocalNow(off)]]
        ELSE [state |-> st, handed |-> <<message>>,
              ret |-> [success |-> FALSE,
                       error |-> <<"Failed to send email via Gmail API: ", transport>>]]

MissingRecipientError == <<"RECIPIENT_EMAIL not set in environment.">>
MissingDigestError == <<"No daily digest found in state. Run summarizer first.">>

\* the whole call; env is the process environment and what the mail services do
send_email_digest(env, off, st) ==
    LET digest_html == Get(st, "daily_digest", <<>>)
    IN  IF env.RECIPIENT_EMAIL = <<>>
        THEN [state |-> st, handed |-> <<>>,
              ret |-> [success |-> FALSE, error |-> MissingRecipientError]]
        ELSE IF digest_html = <<>>
        THEN [state |-> st, handed |-> <<>>,
              ret |-> [success |-> FALSE, error |-> MissingDigestError]]
        ELSE IF env.GMAIL_APP_PASSWORD # <<>> /\ env.GMAIL_ADDRESS # <<>>
        THEN send_via_smtp(env.GMAIL_ADDRESS, env.GMAIL_APP_PASSWORD, env.RECIPIENT_EMAIL,
                           CleanDigest(digest_html), env.transport, off, st)
        ELSE send_via_gmail_api(env.RECIPIENT_EMAIL, CleanDigest(digest_html),
                                env.GMAIL_AVAILABLE, env.auth, env.transport, off, st)

-----------------------------------------------------------------------------
(* The delivery run: a session state with or without a digest, then sends *)

PlainDigest == <<"<", "p", ">", "x", "<", "/", "p", ">">>
FencedDigest == HtmlFence \o <<"\n">> \o PlainDigest \o <<"\n">> \o Fence
BlankDigest == <<" ", "\n">>

OpenedDigest == Fence \o PlainDigest
ClosedDigest == PlainDigest \o <<"\n">> \o Fence
PaddedDigest == <<" ">> \o Fence \o <<"\n">> \o PlainDigest \o <<"\n">> \o Fence \o <<"\n">>

Digests ==
    {<<>>, PlainDigest, FencedDigest, OpenedDigest, ClosedDigest, PaddedDigest, BlankDigest}

DigestStates == {EmptyDict} \cup { Put(EmptyDict, "daily_digest", d) : d \in Digests }

RecipientAddress == <<"r", "@", "x">>
SenderAddress == <<"s", "@", "x">>
AppPassword == <<"p", "w">>

\* the environment variables (unset or empty reads as the empty string), the
\* import of the Gmail libraries, and what the mail services do
Environments ==
    [RECIPIENT_EMAIL : {<<>>, RecipientAddress},
     GMAIL_ADDRESS : {<<>>, SenderAddress},
     GMAIL_APP_PASSWORD : {<<>>, AppPassword},
     GMAIL_AVAILABLE : BOOLEAN,
     auth : AuthOutcomes,
     transport : Transports]

InitDelivery ==
    /\ state \in DigestStates
    /\ last = NoCall
    /\ tz = 0
    /\ calls = 0
    /\ queries = 0
    /\ seen = 0
    /\ runner = NoRun
    /\ daemon = NoDaemon

SendEmailDigest ==
    /\ last = NoCall
    /\ calls < MaxSends
    /\ \E env \in Environments :
          LET r == send_email_digest(env, tz, state)
          IN  /\ state' = r.state
              /\ last' = [fn |-> "send_email_digest", arg |-> env, max_articles |-> 0,
                          feed |-> Served(<<>>), pre |-> state, stored |-> r.state # state,
                          batch |-> r.handed, ret |-> r.ret]
              /\ calls' = calls + 1
              /\ UNCHANGED <<tz, queries, seen, runner, daemon>>

NextDelivery ==
    \/ Return
    \/ SendEmailDigest

SpecDelivery == InitDelivery /\ [][NextDelivery]_vars

-----------------------------------------------------------------------------
(* The pipeline run: the runner drives the root agent over a fresh session *)

\* variant: the analyst is listed before the fact checker
sub_agents_analyst_first ==
    <<"google_news_collector", "preprocessor", "nlp_analyst", "fact_checker",
      "summarizer", "email_delivery">>

\* root_agent = SequentialAgent(sub_agents=[...]), by agent name
sub_agents ==
    <<"google_news_collector", "preprocessor", "fact_checker", "nlp_analyst",
      "summarizer", "email_delivery">>

ToolCall(fn, arg, max_articles) == [fn |-> fn, arg |-> arg, max_articles |-> max_articles]

\* the tool calls each agent's instruction tells its model to make, in order
ToolCallsOf(agent) ==
    CASE agent = "google_news_collector" ->
            << ToolCall("fetch_google_news_rss", "politics", 4),
               ToolCall("fetch_google_news_rss", "technology", 3),
               ToolCall("fetch_google_news_rss", "europe", 4) >>
      [] agent = "preprocessor" -> << ToolCall("preprocess_articles", "", 0) >>
      [] agent = "fact_checker" ->
            << ToolCall("score_article_credibility", "", 0),
               ToolCall("flag_dubious_claims", "", 0) >>
      [] agent = "nlp_analyst" ->
            << ToolCall("analyze_sentiment", "", 0),
               ToolCall("detect_political_bias", "", 0),
               ToolCall("extract_keywords", "", 0) >>
      [] agent = "summarizer" -> << ToolCall("get_analysis_results", "", 0) >>
      [] agent = "email_delivery" -> << ToolCall("send_email_digest", "", 0) >>

\* the agents declared with an output_key, and the key
output_key(agent) ==
    CASE agent = "summarizer" -> "daily_digest"
      [] agent = "email_delivery" -> "delivery_status"
      [] OTHER -> ""

\* what the summarizer's model may hand back as the digest
RenderedDigests == {PlainDigest, FencedDigest}

ReutersTitle == <<"a", " ", "-", " ">> \o ReutersName

\* entries of the feeds of a run: a sourced story with quotable text and a
\* college sports story
RunEntries ==
    { [Plain EXCEPT !.title = ReutersTitle, !.summary = TextA],
      [Plain EXCEPT !.title = <<"b">>, !.summary = TouchdownSummary] }

RunFeeds ==
    {RaisingFeed} \cup { Served(es) : es \in SeqsUpTo(RunEntries, MaxRunEntries) }

\* the feeds served to the politics, technology and europe queries of a run
RunFeedTriples ==
    { t \in RunFeeds \X RunFeeds \X RunFeeds :
        Len(t[1].entries) + Len(t[2].entries) + Len(t[3].entries) <= MaxRunEntries }

\* the configurations a run is started under: no recipient, SMTP that takes
\* the message, SMTP that refuses it, the Gmail API
RunEnvironments ==
    { env \in Environments :
        /\ env.GMAIL_AVAILABLE
        /\ env.auth = "creds"
        /\ (env.GMAIL_ADDRESS = <<>>) = (env.GMAIL_APP_PASSWORD = <<>>)
        /\ env.transport \in {"sent", "refused"}
        /\ env.RECIPIENT_EMAIL = <<>> => env.GMAIL_ADDRESS # <<>> /\ env.transport = "sent"
        /\ env.GMAIL_ADDRESS = <<>> => env.transport = "sent" }

\* session_service.create_session(state={}) and Runner(agent=root_agent)
StartedRun(agents, feeds) ==
    [agents |-> agents, agent |-> 1, step |-> 1, feeds |-> feeds, reports |-> <<>>,
     exited |-> FALSE, exit_code |-> 0, completed |-> FALSE]

InitPipeline ==
    /\ state = EmptyDict
    /\ last = NoCall
    /\ tz = 0
    /\ calls = 0
    /\ queries = 0
    /\ seen = 0
    /\ runner \in { StartedRun(sub_agents, feeds) : feeds \in RunFeedTriples }
    /\ daemon = NoDaemon

Running == ~runner.exited /\ runner.agent <= Len(runner.agents)

CurrentAgent == runner.agents[runner.agent]

\* the keys of the session state the tool reads
KeysRead(fn) ==
    CASE fn = "fetch_google_news_rss" -> {"collected_articles"}
      [] fn = "preprocess_articles" -> {"collected_articles"}
      [] fn = "score_article_credibility" -> {"preprocessed_articles"}
      [] fn = "flag_dubious_claims" -> {"fact_checked_articles"}
      [] fn = "analyze_sentiment" -> {"fact_checked_articles"}
      [] fn = "detect_political_bias" -> {"nlp_analyzed_articles"}
      [] fn = "extract_keywords" -> {"bias_analyzed_articles"}
      [] fn = "get_analysis_results" ->
            {"bias_analyzed_articles", "sentiment_stats", "bias_analysis", "top_keywords",
             "credibility_stats", "flagged_claims", "nlp_analyzed_articles",
             "fact_checked_articles", "preprocessed_articles", "collected_articles"}
      [] fn = "send_email_digest" -> {"daily_digest"}
      [] OTHER -> {}

\* the keys of the session state the tool assigns
KeysWritten(fn) ==
    CASE fn = "fetch_google_news_rss" -> {"collected_articles"}
      [] fn = "preprocess_articles" -> {"preprocessed_articles", "preprocessing_stats"}
      [] fn = "score_article_credibility" -> {"fact_checked_articles", "credibility_stats"}
      [] fn = "flag_dubious_claims" -> {"flagged_claims"}
      [] fn = "analyze_sentiment" -> {"nlp_analyzed_articles", "sentiment_stats"}
      [] fn = "detect_political_bias" ->
            {"nlp_analyzed_articles", "bias_analyzed_articles", "bias_analysis"}
      [] fn = "extract_keywords" -> {"top_keywords"}
      [] fn = "send_email_digest" -> {"email_sent", "email_method", "email_message_id"}
      [] OTHER -> {}

\* the framework's call of the tool on the session state st
ToolResult(call, feed, entity_data, blob, env, off, st) ==
    CASE call.fn = "fetch_google_news_rss" ->
            fetch_google_news_rss(call.arg, call.max_articles, feed, st)
      [] call.fn = "preprocess_articles" ->
            preprocess_articles(
                [i \in 1..Len(ValidOnes(Get(st, "collected_articles", <<>>))) |-> entity_data],
                st)
      [] call.fn = "score_article_credibility" -> score_article_credibility(st)
      [] call.fn = "flag_dubious_claims" -> flag_dubious_claims(st)
      [] call.fn = "analyze_sentiment" ->
            analyze_sentiment(
                [i \in 1..Len(ValidOnes(Get(st, "fact_checked_articles", <<>>))) |-> blob],
                st)
      [] call.fn = "detect_political_bias" -> detect_political_bias(st)
      [] call.fn = "extract_keywords" -> extract_keywords(st)
      [] call.fn = "get_analysis_results" -> get_analysis_results(off, st)
      [] call.fn = "send_email_digest" -> send_email_digest(env, off, st)

\* the current agent's model asks for its next tool and the framework calls it
CallTool ==
    /\ Running
    /\ runner.step <= Len(ToolCallsOf(CurrentAgent))
    /\ LET call == ToolCallsOf(CurrentAgent)[runner.step]
           feed == IF call.fn = "fetch_google_news_rss"
                   THEN runner.feeds[runner.step] ELSE Served(<<>>)
       IN  \E entity_data \in IF call.fn = "preprocess_articles"
                              THEN EntityResults ELSE {NoEntities},
              blob \in IF call.fn = "analyze_sentiment"
                       THEN Sentiments ELSE {CHOOSE b \in Sentiments : TRUE},
              env \in IF call.fn = "send_email_digest"
                      THEN RunEnvironments ELSE {CHOOSE e \in RunEnvironments : TRUE} :
            LET r == ToolResult(call, feed, entity_data, blob, env, tz, state)
                raised == "raised" \in DOMAIN r /\ r.raised
            IN  /\ state' = r.state
                /\ last' = [fn |-> call.fn,
                            arg |-> IF call.fn = "send_email_digest" THEN env ELSE call.arg,
                            max_articles |-> call.max_articles, feed |-> feed,
                            pre |-> state, stored |-> r.state # state,
                            batch |-> IF "batch" \in DOMAIN r THEN r.batch
                                      ELSE IF "handed" \in DOMAIN r THEN r.handed
                                      ELSE <<>>,
                            ret |-> r.ret]
                /\ runner' = IF raised
                             THEN [runner EXCEPT !.exited = TRUE, !.exit_code = 1]
                             ELSE [runner EXCEPT !.step = @ + 1]
                /\ calls' = calls + 1
                /\ queries' = IF call.fn = "fetch_google_news_rss" THEN queries + 1 ELSE queries
                /\ seen' = seen + Len(feed.entries)
                /\ UNCHANGED <<tz, daemon>>

\* the current agent's model gives its final answer: the framework stores it
\* under the agent's output_key, if it has one, and the next agent starts
AgentReports ==
    /\ Running
    /\ runner.step = Len(ToolCallsOf(CurrentAgent)) + 1
    /\ \E text \in IF CurrentAgent = "summarizer" THEN RenderedDigests
                   ELSE IF CurrentAgent = "email_delivery"
                   THEN {IF "success" \in DOMAIN last.ret /\ last.ret.success
                         THEN <<"sent">> ELSE <<"failed">>}
                   ELSE {<<>>} :
          state' = IF output_key(CurrentAgent) = "" THEN state
                   ELSE Put(state, output_key(CurrentAgent), text)
    /\ runner' = [runner EXCEPT
                     !.agent = @ + 1,
                     !.step = 1,
                     !.reports = IF CurrentAgent = "google_news_collector"
                                 THEN Append(@, Get(state, "collected_articles", <<>>))
                                 ELSE @]
    /\ UNCHANGED <<last, tz, calls, queries, seen, daemon>>

\* a call to the language model raises: run_async raises, main() prints the
\* failure and calls sys.exit(1)
ModelCallFails ==
    /\ Running
    /\ runner' = [runner EXCEPT !.exited = TRUE, !.exit_code = 1]
    /\ UNCHANGED <<state, last, tz, calls, queries, seen, daemon>>

\* run_async is exhausted: "Pipeline Completed Successfully", sys.exit(0)
RunnerExits ==
    /\ ~runner.exited
    /\ runner.agents # <<>>
    /\ runner.agent = Len(runner.agents) + 1
    /\ runner' = [runner EXCEPT !.exited = TRUE, !.exit_code = 0, !.completed = TRUE]
    /\ UNCHANGED <<state, last, tz, calls, queries, seen, daemon>>

NextPipeline ==
    \/ CallTool
    \/ AgentReports
    \/ ModelCallFails
    \/ RunnerExits

SpecPipeline == InitPipeline /\ [][NextPipeline]_vars

-----------------------------------------------------------------------------
(* The collector run twice on one session, against the same three feeds *)

\* what the session may hold before the first run: nothing, or the list of an
\* earlier day
LeftoverStates ==
    { EmptyDict,
      Put(EmptyDict, "collected_articles", <<RawArticle(<<"z">>, ReutersName, "politics", TextC)>>) }

InitRerun ==
    /\ state \in LeftoverStates
    /\ last = NoCall
    /\ tz = 0
    /\ calls = 0
    /\ queries = 0
    /\ seen = 0
    /\ runner \in { StartedRun(<<"google_news_collector", "google_news_collector">>, feeds) :
                      feeds \in RunFeedTriples }
    /\ daemon = NoDaemon

NextRerun ==
    \/ CallTool
    \/ AgentReports

SpecRerun == InitRerun /\ [][NextRerun]_vars

-----------------------------------------------------------------------------
(* The scheduler daemon.  Wall clock in half-hours since a midnight: the   *)
(* loop wakes every minute, so it sees every half-hour mark; the job       *)
(* times and the timeout are whole half-hours.                             *)

DayTicks == 48

\* timeout=3600
TimeoutTicks == 2

\* every().day.at("07:00"), at("12:30"), at("20:30")
JobTimes == <<14, 25, 41>>

Jobs == 1..Len(JobTimes)

\* how a call of run_manis_job may go: the child exits 0, exits non-zero,
\* outlives the timeout, or subprocess.run raises something else
Outcomes == {"exit 0", "exit non-zero", "timeout", "error"}

\* the first time of day `at` after `now`: how a daily job is first scheduled
FirstRun(at, now) ==
    IF (now \div DayTicks) * DayTicks + at > now
    THEN (now \div DayTicks) * DayTicks + at
    ELSE (now \div DayTicks + 1) * DayTicks + at

\* a daily job that has just run is due again the next day at its time
NextRunAfter(at, now) == (now \div DayTicks + 1) * DayTicks + at

\* variant: a timeout is not caught in the job and ends main()'s loop
LoopAfterUncaughtTimeout(outcome) == IF outcome = "timeout" THEN "stopped" ELSE "pending"

\* run_manis_job catches TimeoutExpired and Exception and logs a non-zero
\* exit: it returns normally and run_pending goes on
LoopAfter(outcome) == "pending"

\* the moments of the day the daemon may be started at
StartTicks == {0, 20, 30, 45}

InitDaemon ==
    /\ state = EmptyDict
    /\ last = NoCall
    /\ tz = 0
    /\ calls = 0
    /\ queries = 0
    /\ seen = 0
    /\ runner = NoRun
    /\ \E now \in StartTicks :
          daemon = [pos |-> "pending", since |-> now, clock |-> now,
                    next_run |-> [j \in Jobs |-> FirstRun(JobTimes[j], now)],
                    job |-> 0, began |-> 0, active |-> 0,
                    started |-> [j \in Jobs |-> 0], outcome |-> "none"]

Due == { j \in Jobs : daemon.clock >= daemon.next_run[j] }

\* run_pending takes the due job with the earliest next_run, run_manis_job
\* logs the trigger and subprocess.run starts the child
JobStarts ==
    /\ daemon.pos = "pending"
    /\ Due # {}
    /\ LET j == CHOOSE d \in Due : \A o \in Due : daemon.next_run[d] <= daemon.next_run[o]
       IN  daemon' = [daemon EXCEPT !.pos = "child", !.job = j, !.began = daemon.clock,
                                    !.active = @ + 1, !.started[j] = @ + 1]
    /\ UNCHANGED <<state, last, tz, calls, queries, seen, runner>>

\* the job is over: the schedule moves it to the next day and the loop goes on
\* or ends
JobOver(outcome) ==
    [daemon EXCEPT !.pos = LoopAfter(outcome),
                   !.active = @ - 1,
                   !.outcome = outcome,
                   !.next_run[daemon.job] = NextRunAfter(JobTimes[daemon.job], daemon.clock)]

\* the child ends within the hour, with code 0 or another code
ChildExits ==
    /\ daemon.pos = "child"
    /\ \E outcome \in {"exit 0", "exit non-zero"} : daemon' = JobOver(outcome)
    /\ UNCHANGED <<state, last, tz, calls, queries, seen, runner>>

\* the hour is over: subprocess.run kills the child and raises TimeoutExpired
ChildTimesOut ==
    /\ daemon.pos = "child"
    /\ daemon.clock - daemon.began = TimeoutTicks
    /\ daemon' = JobOver("timeout")
    /\ UNCHANGED <<state, last, tz, calls, queries, seen, runner>>

\* subprocess.run raises another exception; the child, if any, is gone
JobRaises ==
    /\ daemon.pos = "child"
    /\ daemon' = JobOver("error")
    /\ UNCHANGED <<state, last, tz, calls, queries, seen, runner>>

\* run_pending finds nothing due: time.sleep(60)
Sleeps ==
    /\ daemon.pos = "pending"
    /\ Due = {}
    /\ daemon' = [daemon EXCEPT !.pos = "sleeping"]
    /\ UNCHANGED <<state, last, tz, calls, queries, seen, runner>>

\* half an hour passes, in sleep or with the child at work
Tick ==
    /\ daemon.clock < MaxClock
    /\ \/ daemon.pos = "sleeping"
       \/ daemon.pos = "child" /\ daemon.clock - daemon.began < TimeoutTicks
    /\ daemon' = [daemon EXCEPT !.clock = @ + 1,
                                !.pos = IF @ = "sleeping" THEN "pending" ELSE @]
    /\ UNCHANGED <<state, last, tz, calls, queries, seen, runner>>

\* Ctrl+C: KeyboardInterrupt ends the loop, and the child with it
Interrupted ==
    /\ daemon.pos \in {"pending", "sleeping", "child"}
    /\ daemon' = [daemon EXCEPT !.pos = "stopped", !.active = 0, !.outcome = "interrupted"]
    /\ UNCHANGED <<state, last, tz, calls, queries, seen, runner>>

NextDaemon ==
    \/ JobStarts
    \/ ChildExits
    \/ ChildTimesOut
    \/ JobRaises
    \/ Sleeps
    \/ Tick
    \/ Interrupted

SpecDaemon == InitDaemon /\ [][NextDaemon]_vars

-----------------------------------------------------------------------------
(* Vocabulary of the properties *)

\* the articles a state dictionary holds under the shared key
Collected(st) == Get(st, "collected_articles", <<>>)

\* a tool call has just returned
Called == last # NoCall

IsGoogle == last.fn = "fetch_google_news_rss"

\* the argument of the call is one the called collector supports
SupportedArg ==
    IF IsGoogle THEN last.arg \in topic_queries ELSE last.arg \in feed_urls

\* s starts with p
IsPrefix(p, s) == Len(p) <= Len(s) /\ SubSeq(s, 1, Len(p)) = p

-----------------------------------------------------------------------------
(* C1 *)

\* C1 as stated: the aggregator clears collected_articles on the first topic
\* query of the run and on no later one; every later aggregator call and every
\* call of another collector keeps the articles already collected and appends.
C1_ClearsOnFirstQueryOnly ==
    Called =>
        IF IsGoogle /\ queries = 1
        THEN Collected(state) = last.batch
        ELSE Collected(state) = Collected(last.pre) \o last.batch

\* C1 (amended): the aggregator clears collected_articles exactly when its topic
\* is 'politics', on the first such query and on every later one; a call with any
\* other topic, and a call of any other collector, keeps the articles already
\* collected as a prefix of the list it leaves.
C1_ClearsExactlyOnPolitics ==
    Called =>
        IF IsGoogle /\ last.arg = "politics"
        THEN /\ "collected_articles" \in DOMAIN state
             /\ Collected(state) = last.batch
        ELSE IsPrefix(Collected(last.pre), Collected(state))

\* a later politics query found articles and cleared them
C1_Witness ==
    /\ Called
    /\ IsGoogle
    /\ last.arg = "politics"
    /\ queries > 1
    /\ Collected(last.pre) # <<>>
    /\ Collected(state) = <<>>

-----------------------------------------------------------------------------
(* C2 *)

\* C2 as stated: after any successful call that accepts batch B on a list A the
\* list is A followed by B, whichever collector made the call.
C2_AppendKeepsAll ==
    (Called /\ last.ret.success) =>
        Collected(state) = Collected(last.pre) \o last.batch

\* C2 (amended): after a successful call that accepts batch B on a list A the
\* list is exactly A followed by B (nothing dropped, replaced, reordered or
\* deduplicated), unless the call is the aggregator's politics query, which
\* discards A first: then the list is exactly B.
C2_AppendKeepsAllButPolitics ==
    (Called /\ last.ret.success) =>
        IF IsGoogle /\ last.arg = "politics"
        THEN Collected(state) = last.batch
        ELSE /\ Len(Collected(state)) = Len(Collected(last.pre)) + Len(last.batch)
             /\ \A i \in 1..Len(Collected(last.pre)) :
                    Collected(state)[i] = Collected(last.pre)[i]
             /\ \A j \in 1..Len(last.batch) :
                    Collected(state)[Len(Collected(last.pre)) + j] = last.batch[j]

\* a batch from one collector was appended behind an article of another
C2_Witness ==
    /\ Called
    /\ last.ret.success
    /\ Collected(last.pre) # <<>>
    /\ last.batch # <<>>
    /\ last.batch[1].source # Collected(last.pre)[1].source
    /\ Len(Collected(state)) = 2

-----------------------------------------------------------------------------
(* C3 *)

\* C3: a call whose category or topic the collector does not support returns a
\* failure with an empty articles list and leaves the state dictionary exactly
\* as it found it.
C3_InvalidArgTouchesNothing ==
    (Called /\ ~SupportedArg) =>
        /\ last.ret.success = FALSE
        /\ "error" \in DOMAIN last.ret
        /\ last.ret.articles = <<>>
        /\ state = last.pre

\* an unsupported topic was put to the aggregator while articles were stored
C3_Witness ==
    /\ Called
    /\ IsGoogle
    /\ ~SupportedArg
    /\ Collected(state) # <<>>

-----------------------------------------------------------------------------
(* C4 *)

\* feed retrieval raised, gave nothing usable, or gave zero entries
NothingRetrieved == last.feed.kind # "ok" \/ last.feed.entries = <<>>

\* C4: for every collector, when feed retrieval raises or the feed yields zero
\* entries, the call returns a failure result carrying an error reason.
C4_EmptyOrFailedFeedIsFailure ==
    (Called /\ SupportedArg /\ NothingRetrieved) =>
        /\ last.ret.success = FALSE
        /\ "error" \in DOMAIN last.ret

-----------------------------------------------------------------------------
(* C5 *)

\* the oldest hour the 48-hour window admits, on the UTC clock of the stamps
WindowStart == NowUTC - WindowHours

\* C5: every article in the accumulator carries a timestamp inside the recency
\* window of the call that added it, measured on the UTC clock of the entries.
C5_StoredArticlesAreRecent ==
    \A i \in 1..Len(Collected(state)) :
        Collected(state)[i].timestamp >= WindowStart

-----------------------------------------------------------------------------
(* C6 *)

\* the entry is inside the window, its stamp parses and its title is not empty
Qualifies(e) ==
    /\ ParseDate(e).ok
    /\ ParseDate(e).h >= WindowStart
    /\ e.has_title
    /\ Strip(e.title) # <<>>

\* the article is the one built from the entry
BuiltFrom(a, e) ==
    /\ a.timestamp = ParseDate(e).h
    /\ a.description = Strip(e.summary)
    /\ a.title \in {Strip(e.title), SplitSource(Strip(e.title)).title}

\* max_articles is large enough for the loop to reach every entry of the feed
\* without stopping at the limit
LimitCoversFeed == last.max_articles >= Len(last.feed.entries)

\* C6: each raw entry inside the window with a parseable stamp and a non-empty
\* title is accepted and is in the accumulator after the call.  The claim is
\* stated here for the calls it is least demanding on: those whose max_articles
\* covers the whole feed.
C6_QualifyingEntriesAreAccepted ==
    (Called /\ SupportedArg /\ last.feed.kind = "ok" /\ LimitCoversFeed) =>
        \A k \in 1..Len(last.feed.entries) :
            Qualifies(last.feed.entries[k]) =>
                \E i \in 1..Len(Collected(state)) :
                    BuiltFrom(Collected(state)[i], last.feed.entries[k])

-----------------------------------------------------------------------------
(* C7 *)

\* the stamped entries of the feed the call was served
Dated == { k \in 1..Len(last.feed.entries) : ParseDate(last.feed.entries[k]).ok }

\* C7: an entry with neither a published nor an updated stamp, or with a stamp
\* that does not parse, is rejected: every article the call stored carries the
\* stamp of a stamped entry, and no more articles are stored than the feed has
\* stamped entries.
C7_UndatedEntriesAreRejected ==
    Called =>
        /\ Len(last.batch) <= Cardinality(Dated)
        /\ \A j \in 1..Len(last.batch) :
               \E k \in Dated :
                   last.batch[j].timestamp = ParseDate(last.feed.entries[k]).h

-----------------------------------------------------------------------------
(* C8 *)

\* C8: every article in the accumulator has a non-empty title.
C8_StoredTitlesNonEmpty ==
    \A i \in 1..Len(Collected(state)) : Collected(state)[i].title # <<>>

-----------------------------------------------------------------------------
(* C9 *)

Old72 == [Plain EXCEPT !.published = At(NowUTC - 72)]

HasCounters(ret) ==
    /\ "debug_info" \in DOMAIN ret
    /\ {"total_rss_entries", "entries_too_old", "entries_parse_failed",
        "entries_missing_title"} \subseteq DOMAIN ret.debug_info

\* C9: every fetch attempt returns the four diagnostic counters, and a feed of
\* one entry dated 72 hours ago yields no article and entries_too_old = 1.  The
\* claim is stated here for the attempts it is least demanding on: those that
\* got entries and returned success.
C9_CountersOnEveryAttempt ==
    (Called /\ last.ret.success /\ last.feed.entries # <<>>) =>
        /\ HasCounters(last.ret)
        /\ (last.max_articles >= 1 /\ last.feed = Served(<<Old72>>)) =>
               /\ last.batch = <<>>
               /\ last.ret.debug_info.entries_too_old = 1

-----------------------------------------------------------------------------
(* C10 *)

\* the articles the call found and kept in the list
Retained ==
    IF GoogleClears(last.arg) THEN <<>> ELSE Collected(last.pre)

\* C10 as stated: for every integer max_articles one aggregator call appends at
\* most max_articles articles (read as: none when max_articles is negative) and
\* returns the number it appended.
C10_AtMostMaxArticles ==
    (Called /\ IsGoogle /\ last.ret.success) =>
        /\ Len(Collected(state)) - Len(Retained) <= Max(last.max_articles, 0)
        /\ last.ret.count = Len(Collected(state)) - Len(Retained)

\* C10 (amended): for every max_articles >= 0 one aggregator call appends at
\* most max_articles articles; for a negative max_articles it appends at most
\* one; the count it returns is the number of articles it appended.
C10_AtMostMaxArticlesNonNegative ==
    (Called /\ IsGoogle /\ last.ret.success) =>
        /\ last.max_articles >= 0 =>
               Len(Collected(state)) - Len(Retained) <= last.max_articles
        /\ last.max_articles < 0 =>
               Len(Collected(state)) - Len(Retained) <= 1
        /\ last.ret.count = Len(Collected(state)) - Len(Retained)

\* the limit cut a feed short: more entries qualified than were appended
C10_Witness ==
    /\ Called
    /\ IsGoogle
    /\ last.ret.success
    /\ last.max_articles = 2
    /\ last.ret.count = 2
    /\ Cardinality({ k \in 1..Len(last.feed.entries) :
                        Qualifies(last.feed.entries[k]) }) > 2

-----------------------------------------------------------------------------
(* C11 *)

\* the pieces of s between single spaces, as str.split(' ') gives them
RECURSIVE SplitOnSpace(_)
SplitOnSpace(s) ==
    IF \A i \in 1..Len(s) : s[i] # " " THEN <<s>>
    ELSE LET k == CHOOSE i \in 1..Len(s) :
                      s[i] = " " /\ \A j \in 1..(i - 1) : s[j] # " "
         IN  <<SubSeq(s, 1, k - 1)>> \o SplitOnSpace(SubSeq(s, k + 1, Len(s)))

WordsOf(s) == { SplitOnSpace(s)[i] : i \in 1..Len(SplitOnSpace(s)) }

\* the lower-cased title and description the filter looks at
FilterText(e) == Lower(Strip(e.title) \o <<" ">> \o Strip(e.summary))

MentionsUniversity(e) ==
    \E u \in university_tech_indicators : Contains(FilterText(e), u)

\* the sports keywords found anywhere in the text
KeywordsIn(e) == { k \in sports_filter_keywords : Contains(FilterText(e), k) }

\* the sports keywords that are whole words of the text
KeywordWordsIn(e) == sports_filter_keywords \cap WordsOf(FilterText(e))

\* the call stored no article built from the entry
Rejected(e) == ~ \E i \in 1..Len(last.batch) : BuiltFrom(last.batch[i], e)

\* the call scanned its whole feed: it succeeded and did not stop at the limit
ScannedAll == Called /\ last.ret.success /\ LimitCoversFeed

\* C11 as stated: an entry passing the date and title checks is rejected
\* exactly when the topic is technology and its text contains (a) a university
\* 'Tech' name and at least one sports keyword, or (b) no such name and at
\* least two distinct sports keywords.
C11_SportsRejectedOnContainedKeywords ==
    ScannedAll =>
        \A k \in 1..Len(last.feed.entries) :
            LET e == last.feed.entries[k]
            IN  Qualifies(e) =>
                    (Rejected(e) <=>
                        /\ last.arg = "technology"
                        /\ IF MentionsUniversity(e)
                           THEN Cardinality(KeywordsIn(e)) >= 1
                           ELSE Cardinality(KeywordsIn(e)) >= 2)

\* C11 amended: in case (a) one keyword anywhere in the text is enough, in
\* case (b) at least two distinct keywords must each stand as a whole word
\* between spaces; entries of the other topics are never rejected.
C11_SportsRejectedOnWholeWords ==
    ScannedAll =>
        \A k \in 1..Len(last.feed.entries) :
            LET e == last.feed.entries[k]
            IN  Qualifies(e) =>
                    (Rejected(e) <=>
                        /\ last.arg = "technology"
                        /\ IF MentionsUniversity(e)
                           THEN Cardinality(KeywordsIn(e)) >= 1
                           ELSE Cardinality(KeywordWordsIn(e)) >= 2)

\* a technology call rejected the 'Georgia Tech touchdown' entry and stored
\* the 'AI model' entry served with it
C11_Witness ==
    /\ ScannedAll
    /\ last.arg = "technology"
    /\ Len(last.feed.entries) = 2
    /\ \A i \in 1..2 : "summary" \in DOMAIN last.feed.entries[i]
    /\ last.feed.entries[1].summary = TouchdownSummary
    /\ last.feed.entries[2].summary = AiModelSummary
    /\ Len(last.batch) = 1
    /\ last.batch[1].description = AiModelSummary

-----------------------------------------------------------------------------
(* C12 *)

\* the positions at which ' - ' starts in the title
SuffixStarts(t) == { k \in 1..Len(t) : k + 2 <= Len(t) /\ SubSeq(t, k, k + 2) = SEP }

\* the title and the source the article of a raw title must carry: the text
\* before the last ' - ' and the text after it, or the title and the feed's name
ExpectedTitle(t) ==
    IF SuffixStarts(t) = {} THEN t
    ELSE Strip(SubSeq(t, 1, SetMax(SuffixStarts(t)) - 1))

ExpectedSource(t) ==
    IF SuffixStarts(t) = {} THEN GoogleNewsName
    ELSE Strip(SubSeq(t, SetMax(SuffixStarts(t)) + 3, Len(t)))

\* C12: every article the aggregator fetcher stores has the trailing
\* ' - <Source>' suffix of its raw title removed from title and set as source
\* and original_source, or the source 'Google News' when the raw title has no
\* suffix; source equals original_source, and region is 'EU/International'
\* exactly when the topic is europe.
C12_SourceSplitFromTitle ==
    (Called /\ last.stored) =>
        \A i \in 1..Len(last.batch) :
            LET a == last.batch[i]
            IN  /\ a.source = a.original_source
                /\ (a.region = "EU/International") <=> (last.arg = "europe")
                /\ \E k \in 1..Len(last.feed.entries) :
                      LET e == last.feed.entries[k]
                      IN  /\ a.timestamp = ParseDate(e).h
                          /\ a.description = Strip(e.summary)
                          /\ a.title = ExpectedTitle(Strip(e.title))
                          /\ a.source = ExpectedSource(Strip(e.title))

\* a europe call stored the article of a title with two ' - ' and the article
\* of a title with none
C12_Witness ==
    /\ Called
    /\ last.arg = "europe"
    /\ Len(last.batch) = 2
    /\ last.feed.entries[1].title = TwoSuffixTitle
    /\ last.batch[1].title = <<"a", " ", "-", " ", "b">>
    /\ last.batch[1].source = <<"c">>
    /\ last.batch[1].region = "EU/International"
    /\ last.batch[2].title = <<"a">>
    /\ last.batch[2].source = GoogleNewsName

-----------------------------------------------------------------------------
(* C13 *)

\* the tool named has just returned a success result
Succeeded(fn) ==
    /\ last.fn = fn
    /\ "success" \in DOMAIN last.ret
    /\ last.ret.success

\* the rows of the table whose key is exactly the article's source
RowsFor(article) ==
    { i \in 1..Len(SOURCE_CREDIBILITY) :
        "source" \in DOMAIN article /\ SOURCE_CREDIBILITY[i].name = article.source }

\* the records the call read and the records it stored
ScoringInput == ValidOnes(Get(last.pre, "preprocessed_articles", <<>>))
ScoringOutput == Get(state, "fact_checked_articles", <<>>)

\* C13: every scored article carries the credibility_score and bias_score of
\* the table row whose key equals its source exactly, or 60 / 5 when no row
\* does; equal sources get equal scores; each scored article is counted in
\* exactly one of the bands >= 80, 60..79 and < 60, so the band counts sum to
\* scored_count; a 'Reuters' article gets 90 / 1 and counts as high.
C13_ScoresFromExactSource ==
    Succeeded("score_article_credibility") =>
        LET read == ScoringInput
            scored == ScoringOutput
            stats == last.ret.credibility_stats
            InBand(lo, hi) ==
                Cardinality({ i \in 1..Len(scored) :
                    scored[i].credibility_score >= lo /\ scored[i].credibility_score <= hi })
        IN  /\ Len(scored) = Len(read)
            /\ last.ret.scored_count = Len(scored)
            /\ \A i \in 1..Len(scored) :
                  /\ \A r \in RowsFor(read[i]) :
                        /\ scored[i].credibility_score = SOURCE_CREDIBILITY[r].credibility_score
                        /\ scored[i].bias_score = SOURCE_CREDIBILITY[r].bias_score
                  /\ RowsFor(read[i]) = {} =>
                        /\ scored[i].credibility_score = 60
                        /\ scored[i].bias_score = 5
                  /\ ("source" \in DOMAIN read[i] /\ read[i].source = ReutersName) =>
                        /\ scored[i].credibility_score = 90
                        /\ scored[i].bias_score = 1
                  /\ \A j \in 1..Len(scored) :
                        (/\ "source" \in DOMAIN read[i]
                         /\ "source" \in DOMAIN read[j]
                         /\ read[i].source = read[j].source) =>
                            /\ scored[i].credibility_score = scored[j].credibility_score
                            /\ scored[i].bias_score = scored[j].bias_score
            /\ stats.high_credibility = InBand(80, 100)
            /\ stats.medium_credibility = InBand(60, 79)
            /\ stats.low_credibility = InBand(0, 59)
            /\ stats.high_credibility + stats.medium_credibility + stats.low_credibility
                   = last.ret.scored_count

\* a 'Reuters' article and a 'reuters' article were scored in one call: the
\* first got 90 / 1 and counts as high, the second got the default
C13_Witness ==
    /\ Succeeded("score_article_credibility")
    /\ Len(ScoringOutput) = 2
    /\ \A i \in 1..2 : "source" \in DOMAIN ScoringInput[i]
    /\ ScoringInput[1].source = ReutersName
    /\ ScoringInput[2].source = LowerReutersName
    /\ ScoringOutput[1].credibility_score = 90
    /\ ScoringOutput[1].bias_score = 1
    /\ ScoringOutput[2].credibility_score = 60
    /\ last.ret.credibility_stats.high_credibility = 1
    /\ last.ret.credibility_stats.medium_credibility = 1

-----------------------------------------------------------------------------
(* C14 *)

\* C14: the flag_rate returned by flag_dubious_claims lies in [0,1]:
\* flagged_count never exceeds total_claims, the rate is a quotient by a
\* non-zero number, and it is exactly 0 when the articles carry no claim.
C14_FlagRateInUnitInterval ==
    Succeeded("flag_dubious_claims") =>
        LET rate == last.ret.flag_rate
        IN  /\ rate.den > 0
            /\ 0 <= rate.num
            /\ rate.num <= rate.den
            /\ last.ret.flagged_count <= last.ret.total_claims
            /\ last.ret.total_claims = 0 => rate.num = 0

\* articles were given that carry no claim at all, and the rate returned is 0
C14_Witness ==
    /\ Succeeded("flag_dubious_claims")
    /\ Get(last.pre, "fact_checked_articles", <<>>) # <<>>
    /\ last.ret.total_claims = 0
    /\ last.ret.flag_rate.num = 0
    /\ last.ret.flag_rate.den = 1

-----------------------------------------------------------------------------
(* C15 *)

\* every claim of every valid article, in the order the loops meet them
RECURSIVE ClaimsOf(_)
ClaimsOf(articles) ==
    IF articles = <<>> THEN <<>>
    ELSE LET a == Head(articles)
             cs == Get(a, "claims", <<>>)
         IN  [j \in 1..Len(cs) |-> [article |-> a, claim |-> cs[j]]]
                 \o ClaimsOf(Tail(articles))

\* the claim contains a hedging keyword, whatever its letter case
Hedged(claim) == \E keyword \in verification_keywords : Contains(Lower(claim), keyword)

\* the claim is one the rule flags
MustFlag(c) == Hedged(c.claim) \/ Get(c.article, "bias_score", 0) >= 7

FlaggingInput == ClaimsOf(ValidOnes(Get(last.pre, "fact_checked_articles", <<>>)))

\* C15: flag_dubious_claims stores a claim in flagged_claims if and only if
\* it contains a hedging keyword (case-insensitive substring) or its article
\* has bias_score >= 7, each such claim once, and no other claim.
C15_FlaggedIffHedgedOrHighBias ==
    Succeeded("flag_dubious_claims") =>
        LET due == SelectSeq(FlaggingInput, MustFlag)
            flagged == Get(state, "flagged_claims", <<>>)
        IN  /\ Len(flagged) = Len(due)
            /\ \A k \in 1..Len(flagged) :
                  /\ flagged[k].claim = due[k].claim
                  /\ flagged[k].article_title = due[k].article.title

\* one call met a plain claim of a bias-7 article, and a plain and a hedged
\* claim of a bias-6 article: it stored the first and the third
C15_Witness ==
    /\ Succeeded("flag_dubious_claims")
    /\ Len(FlaggingInput) = 3
    /\ \A i \in 1..2 : "bias_score" \in DOMAIN FlaggingInput[i].article
    /\ FlaggingInput[1].article.bias_score = 7
    /\ FlaggingInput[2].article.bias_score = 6
    /\ ~Hedged(FlaggingInput[1].claim)
    /\ ~Hedged(FlaggingInput[2].claim)
    /\ Hedged(FlaggingInput[3].claim)
    /\ Len(state.flagged_claims) = 2
    /\ state.flagged_claims[1].reason = "high_bias_source"
    /\ state.flagged_claims[2].claim = HedgedClaim

-----------------------------------------------------------------------------
(* C16 *)

\* the stages that enrich the articles, the key each reads and the key each writes
EnrichmentStages ==
    {"preprocess_articles", "score_article_credibility", "analyze_sentiment",
     "detect_political_bias"}

InputKey(fn) ==
    CASE fn = "preprocess_articles" -> "collected_articles"
      [] fn = "score_article_credibility" -> "preprocessed_articles"
      [] fn = "analyze_sentiment" -> "fact_checked_articles"
      [] fn = "detect_political_bias" -> "nlp_analyzed_articles"
      [] fn = "extract_keywords" -> "bias_analyzed_articles"

OutputKey(fn) ==
    CASE fn = "preprocess_articles" -> "preprocessed_articles"
      [] fn = "score_article_credibility" -> "fact_checked_articles"
      [] fn = "analyze_sentiment" -> "nlp_analyzed_articles"
      [] fn = "detect_political_bias" -> "bias_analyzed_articles"

\* record b has every field of record a, with the same value
Keeps(b, a) == \A k \in DOMAIN a : k \in DOMAIN b /\ b[k] = a[k]

\* C16: after an enrichment stage has run, the list under the key it read is
\* what it was before, and the records of the list it wrote keep every field
\* of the records it read.
C16_StagesLeaveTheirInputAlone ==
    \A fn \in EnrichmentStages :
        Succeeded(fn) =>
            LET before == Get(last.pre, InputKey(fn), <<>>)
                read == ValidOnes(before)
                written == ValidOnes(Get(state, OutputKey(fn), <<>>))
            IN  /\ Get(state, InputKey(fn), <<>>) = before
                /\ Len(written) = Len(read)
                /\ \A i \in 1..Len(written) : Keeps(written[i], read[i])

-----------------------------------------------------------------------------
(* C17 *)

\* the call raised instead of returning
Raised == "exception" \in DOMAIN last.ret

\* C17: an entry that is not a record never makes a stage raise, and a stage
\* fails only when its input is empty or has no valid entry.  The claim is
\* stated here without its last part (that exactly the valid entries are
\* processed), which is the part it is least demanding without.
C17_MalformedEntriesNeverAbort ==
    \A fn \in EnrichmentStages \cup {"extract_keywords"} :
        (Called /\ last.fn = fn) =>
            /\ ~Raised
            /\ ~last.ret.success =>
                   ValidOnes(Get(last.pre, InputKey(fn), <<>>)) = <<>>

-----------------------------------------------------------------------------
(* C18 *)

\* the stage lists of a state, the most enriched first
StageLists(st) ==
    << Get(st, "bias_analyzed_articles", <<>>),
       Get(st, "nlp_analyzed_articles", <<>>),
       Get(st, "fact_checked_articles", <<>>),
       Get(st, "preprocessed_articles", <<>>),
       Get(st, "collected_articles", <<>>) >>

\* C18: get_analysis_results returns the first non-empty list in the order
\* bias-analyzed, sentiment-analyzed, credibility-scored, preprocessed,
\* raw-collected, and total_articles is its length; with every enrichment list
\* empty or absent that is the raw collected list.
C18_MostEnrichedNonEmptyList ==
    Succeeded("get_analysis_results") =>
        LET lists == StageLists(last.pre)
            filled == { i \in 1..5 : lists[i] # <<>> }
        IN  /\ \A i \in filled :
                  (\A j \in filled : i <= j) => last.ret.articles = lists[i]
            /\ filled = {} => last.ret.articles = <<>>
            /\ filled = {5} => last.ret.articles = Get(last.pre, "collected_articles", <<>>)
            /\ last.ret.total_articles = Len(last.ret.articles)

\* the sentiment-analyzed and the credibility-scored list were both there and
\* no bias-analyzed one: the sentiment-analyzed list was returned
C18_Witness ==
    /\ Succeeded("get_analysis_results")
    /\ StageLists(last.pre)[1] = <<>>
    /\ StageLists(last.pre)[2] # <<>>
    /\ StageLists(last.pre)[3] # <<>>
    /\ StageLists(last.pre)[2] # StageLists(last.pre)[3]
    /\ last.ret.articles = StageLists(last.pre)[2]
    /\ last.ret.total_articles = Len(StageLists(last.pre)[2])

-----------------------------------------------------------------------------
(* C20 *)

Delivered == Called /\ last.fn = "send_email_digest"

\* the configuration and the session of the send hand a message to a mail service
ReachesTransport ==
    /\ last.arg.RECIPIENT_EMAIL # <<>>
    /\ Get(last.pre, "daily_digest", <<>>) # <<>>
    /\ \/ last.arg.GMAIL_APP_PASSWORD # <<>> /\ last.arg.GMAIL_ADDRESS # <<>>
       \/ last.arg.GMAIL_AVAILABLE /\ last.arg.auth = "creds"

\* C20: a send with no recipient configured fails with the missing-recipient
\* error; with a recipient but no digest in the session state it fails with the
\* missing-digest error; when handing the message to the mail service raises,
\* it fails with an error that ends in the text of what was raised; and every
\* failed send leaves the session state as it was, with no email_sent it did
\* not already have.
C20_DeliveryFailuresLeaveStateAlone ==
    Delivered =>
        /\ last.arg.RECIPIENT_EMAIL = <<>> =>
              ~last.ret.success /\ last.ret.error = MissingRecipientError
        /\ last.arg.RECIPIENT_EMAIL # <<>> /\ Get(last.pre, "daily_digest", <<>>) = <<>> =>
              ~last.ret.success /\ last.ret.error = MissingDigestError
        /\ ReachesTransport /\ last.arg.transport # "sent" =>
              /\ ~last.ret.success
              /\ last.ret.error[Len(last.ret.error)] = last.arg.transport
        /\ ~last.ret.success =>
              /\ state = last.pre
              /\ Get(state, "email_sent", FALSE) = Get(last.pre, "email_sent", FALSE)

\* a send over SMTP that timed out, in a session that never sent anything
C20_Witness ==
    /\ Delivered
    /\ ReachesTransport
    /\ last.arg.GMAIL_APP_PASSWORD # <<>> /\ last.arg.GMAIL_ADDRESS # <<>>
    /\ last.arg.transport = "timed out"
    /\ ~last.ret.success
    /\ last.batch # <<>>
    /\ "email_sent" \notin DOMAIN state

-----------------------------------------------------------------------------
(* C21 *)

Openings == {<<>>, Fence, HtmlFence}
Closings == {<<>>, Fence}

\* d is body between the opening o and the closing c, white space aside
Wraps(d, o, body, c) ==
    LET s == Strip(d)
    IN  /\ Len(o) + Len(c) <= Len(s)
        /\ SubSeq(s, 1, Len(o)) = o
        /\ SubSeq(s, Len(s) - Len(c) + 1, Len(s)) = c
        /\ Strip(SubSeq(s, Len(o) + 1, Len(s) - Len(c))) = body

\* C21: when the stored digest is a document wrapped in an opening fence
\* (with or without the html tag) and/or a closing fence, the html handed to
\* the mail service is that document, it holds no fence, and the digest in the
\* session state is the one that was there before the send.
C21_FencesStrippedDigestKept ==
    Delivered /\ last.batch # <<>> =>
        \A o \in Openings, c \in Closings :
            (o # <<>> \/ c # <<>>)
            /\ Wraps(Get(last.pre, "daily_digest", <<>>), o, PlainDigest, c) =>
                /\ last.batch[1].html = PlainDigest
                /\ ~Contains(last.batch[1].html, Fence)
                /\ Get(state, "daily_digest", <<>>) = Get(last.pre, "daily_digest", <<>>)

\* a digest with white space, a fence, the document, a fence and a newline
\* was sent, and the mail service took the bare document
C21_Witness ==
    /\ Delivered
    /\ last.ret.success
    /\ last.batch # <<>>
    /\ Get(last.pre, "daily_digest", <<>>) = PaddedDigest
    /\ last.batch[1].html = PlainDigest
    /\ state.daily_digest = PaddedDigest

-----------------------------------------------------------------------------
(* C23 *)

\* C23: after a send that went out over SMTP, the session state has
\* email_sent set to TRUE and holds the key delivery_status.
C23_SmtpSendRecordsStatus ==
    Delivered /\ last.ret.success /\ last.ret.method = "smtp" =>
        /\ Get(state, "email_sent", FALSE) = TRUE
        /\ "delivery_status" \in DOMAIN state

-----------------------------------------------------------------------------
(* C26 *)

\* the key each enrichment tool takes its list from
PredecessorKey(fn) ==
    CASE fn = "preprocess_articles" -> "collected_articles"
      [] fn = "score_article_credibility" -> "preprocessed_articles"
      [] fn = "flag_dubious_claims" -> "fact_checked_articles"
      [] fn = "analyze_sentiment" -> "fact_checked_articles"
      [] fn = "detect_political_bias" -> "nlp_analyzed_articles"
      [] fn = "extract_keywords" -> "bias_analyzed_articles"

EnrichmentTools ==
    {"preprocess_articles", "score_article_credibility", "flag_dubious_claims",
     "analyze_sentiment", "detect_political_bias", "extract_keywords"}

\* the call found no list, or an empty one, under its predecessor's key
StarvedCall ==
    /\ last.fn \in EnrichmentTools
    /\ Get(last.pre, PredecessorKey(last.fn), <<>>) = <<>>

\* C26: an enrichment tool that finds its predecessor's key absent or empty
\* returns a failure result and leaves the session state as it found it.
C26_StarvedToolFailsAndWritesNothing ==
    StarvedCall =>
        /\ "success" \in DOMAIN last.ret
        /\ ~last.ret.success
        /\ "error" \in DOMAIN last.ret
        /\ state = last.pre

\* flag_dubious_claims was called on a state whose fact_checked_articles is
\* the empty list, and keyword extraction on a state holding another stage's list
C26_Witness ==
    /\ StarvedCall
    /\ \/ /\ last.fn = "flag_dubious_claims"
          /\ "fact_checked_articles" \in DOMAIN last.pre
          /\ "flagged_claims" \notin DOMAIN state
       \/ /\ last.fn = "extract_keywords"
          /\ Get(last.pre, "collected_articles", <<>>) # <<>>
    /\ ~last.ret.success

-----------------------------------------------------------------------------
(* C27 *)

\* the entry carries a stamp that parses and lies inside the recency window
InsideWindow(e) == ParseDate(e).ok /\ ParseDate(e).h >= WindowStart

\* C27: a call of fetch_fox_news_rss with a supported category and a positive
\* max_articles, served a feed whose first entry lies inside the recency
\* window, returns success with a count between 1 and max_articles, and the
\* accumulator is what it was followed by exactly that many new articles.
C27_FoxStoresAcceptedEntries ==
    /\ Called
    /\ last.fn = "fetch_fox_news_rss"
    /\ last.arg \in feed_urls
    /\ last.max_articles >= 1
    /\ last.feed.kind = "ok"
    /\ last.feed.entries # <<>>
    /\ InsideWindow(last.feed.entries[1])
    =>  /\ last.ret.success
        /\ "count" \in DOMAIN last.ret
        /\ last.ret.count >= 1
        /\ last.ret.count <= last.max_articles
        /\ last.ret.count = Len(last.batch)
        /\ Collected(state) = Collected(last.pre) \o last.batch

-----------------------------------------------------------------------------
(* C30 *)

\* the list under fact_checked_articles was written by the scoring tool: only
\* that tool writes credibility_stats
ScoredByTable(st) == "credibility_stats" \in DOMAIN st

\* C30: whatever articles score_article_credibility scores, it counts none as
\* low credibility and none as high bias, and every bias_score it assigns is
\* below 7; and when flag_dubious_claims then runs on the scored list, every
\* claim it flags holds a hedging keyword and none has the reason
\* high_bias_source.
C30_TableNeverLowNorPartisan ==
    /\ Succeeded("score_article_credibility") =>
          /\ last.ret.credibility_stats.low_credibility = 0
          /\ last.ret.credibility_stats.high_bias = 0
          /\ state.credibility_stats = last.ret.credibility_stats
          /\ \A i \in 1..Len(ScoringOutput) :
                /\ ScoringOutput[i].bias_score < 7
                /\ ScoringOutput[i].credibility_score >= 60
    /\ Succeeded("flag_dubious_claims") /\ ScoredByTable(last.pre) =>
          \A i \in 1..Len(state.flagged_claims) :
              /\ state.flagged_claims[i].reason = "verification_keyword"
              /\ Hedged(state.flagged_claims[i].claim)

\* an article that came with a bias score of 7 was scored, and a later
\* flagging of the scored list flagged the one hedged claim among three
C30_Witness ==
    /\ Succeeded("flag_dubious_claims")
    /\ ScoredByTable(last.pre)
    /\ Len(Get(last.pre, "preprocessed_articles", <<>>)) = 2
    /\ "bias_score" \in DOMAIN last.pre.preprocessed_articles[1]
    /\ last.pre.preprocessed_articles[1].bias_score = 7
    /\ last.pre.fact_checked_articles[1].bias_score < 7
    /\ last.ret.total_claims = 3
    /\ Len(state.flagged_claims) = 1

-----------------------------------------------------------------------------
(* C22 *)

\* the delivery tool of the run was called and answered with a failure
DeliveryFailed ==
    /\ last.fn = "send_email_digest"
    /\ "success" \in DOMAIN last.ret
    /\ ~last.ret.success

\* C22: a run whose delivery failed (no recipient, no document, transport
\* error) ends as a failure: the runner does not print that the pipeline
\* completed successfully and does not exit with code 0.
C22_FailedDeliveryEndsRunAsFailure ==
    (runner.exited /\ DeliveryFailed) =>
        (~runner.completed /\ runner.exit_code # 0)

-----------------------------------------------------------------------------
(* C28 *)

StageKeys ==
    <<"preprocessed_articles", "fact_checked_articles", "nlp_analyzed_articles",
      "bias_analyzed_articles">>

\* the agent whose tools write the stage list under the key
StageOf(key) ==
    CASE key = "preprocessed_articles" -> "preprocessor"
      [] key = "fact_checked_articles" -> "fact_checker"
      [] OTHER -> "nlp_analyst"

\* the agent has given its final answer in this run
Finished(agent) ==
    \E i \in 1..Len(runner.agents) : runner.agents[i] = agent /\ runner.agent > i

\* the record is a dict that carries every field of the collected record,
\* with the collected value
Carries(record, collected) ==
    /\ IsDict(record)
    /\ \A k \in DOMAIN collected : k \in DOMAIN record /\ record[k] = collected[k]

\* the list holds one record per collected record, in the collected order
Conserves(list, st) ==
    /\ Len(list) = Len(Collected(st))
    /\ \A i \in 1..Len(list) : Carries(list[i], Collected(st)[i])

\* C28: in a run from an empty session state with the stages in their fixed
\* order, each of the four stage lists holds exactly one record per collected
\* record, in the same order, and nothing but records, once its stage has run;
\* the total_articles handed to the digest is the number of collected articles.
C28_StagesConserveArticles ==
    /\ \A n \in 1..Len(StageKeys) :
          LET key == StageKeys[n]
          IN  /\ key \in DOMAIN state => Conserves(state[key], state)
              /\ Finished(StageOf(key)) => Conserves(Get(state, key, <<>>), state)
    /\ Succeeded("get_analysis_results") =>
          last.ret.total_articles = Len(Collected(state))

\* the run collected two different articles and the digest data was assembled
\* from the fully analysed list
C28_Witness ==
    /\ Succeeded("get_analysis_results")
    /\ Len(Collected(state)) = 2
    /\ Collected(state)[1] # Collected(state)[2]
    /\ "bias_analyzed_articles" \in DOMAIN state
    /\ last.ret.total_articles = 2

-----------------------------------------------------------------------------
(* C25 *)

\* collect, preprocess, credibility/fact-check, sentiment/bias, digest
\* assembly, delivery
StageOrder ==
    <<"google_news_collector", "preprocessor", "fact_checker", "nlp_analyst",
      "summarizer", "email_delivery">>

\* the keys an agent's stage writes: those of its tools and its output_key
StageWrites(agent) ==
    UNION { KeysWritten(ToolCallsOf(agent)[n].fn) : n \in 1..Len(ToolCallsOf(agent)) }
    \cup (IF output_key(agent) = "" THEN {} ELSE {output_key(agent)})

\* the number of tool calls made by a run that stands at (agent, step)
CallsBefore(agent, step) ==
    LET RECURSIVE upto(_)
        upto(i) == IF i = 0 THEN 0 ELSE upto(i - 1) + Len(ToolCallsOf(runner.agents[i]))
    IN  upto(agent - 1) + (step - 1)

\* the position in runner.agents of the agent that made the latest tool call
Caller == IF runner.step > 1 THEN runner.agent ELSE runner.agent - 1

LaterStages == { runner.agents[j] : j \in (Caller + 1)..Len(runner.agents) }

EarlierStages == { runner.agents[j] : j \in 1..(Caller - 1) }

\* the session state cut down to the keys in ks
Only(st, ks) == [k \in DOMAIN st \cap ks |-> st[k]]

\* the latest call, made again on nothing but the keys its tool reads, gives
\* the answer it gave
SameOnKeysRead ==
    \E entity_data \in EntityResults, blob \in Sentiments :
        ToolResult(ToolCall(last.fn, IF last.fn = "send_email_digest" THEN "" ELSE last.arg,
                            last.max_articles),
                   last.feed, entity_data, blob, last.arg, tz,
                   Only(last.pre, KeysRead(last.fn))).ret = last.ret

\* C25: the stages of a run execute one at a time in the order collect,
\* preprocess, fact-check, sentiment/bias, digest, delivery.  Every tool call is
\* made by the one stage that is running, after every tool of every earlier
\* stage has been called; the call finds no key of a later stage in the state,
\* reads no key a later stage writes, and leaves the keys of earlier stages as
\* they were.
C25_StagesRunInOrderOneAtATime ==
    /\ Len(runner.agents) = Len(StageOrder)
    /\ \A i \in 1..Len(runner.agents) :
          i <= runner.agent => runner.agents[i] = StageOrder[i]
    /\ calls = CallsBefore(runner.agent, runner.step)
    /\ calls > 0 =>
          /\ \E n \in 1..Len(ToolCallsOf(runner.agents[Caller])) :
                ToolCallsOf(runner.agents[Caller])[n].fn = last.fn
          /\ \A later \in LaterStages :
                /\ DOMAIN last.pre \cap StageWrites(later) = {}
                /\ KeysRead(last.fn) \cap StageWrites(later) = {}
          /\ SameOnKeysRead
          /\ \A k \in DOMAIN state \cup DOMAIN last.pre :
                (k \notin DOMAIN state \/ k \notin DOMAIN last.pre \/ state[k] # last.pre[k])
                    => k \in StageWrites(runner.agents[Caller])
          /\ \A earlier \in EarlierStages : \A k \in StageWrites(earlier) :
                /\ (k \in DOMAIN state) = (k \in DOMAIN last.pre)
                /\ k \in DOMAIN state => state[k] = last.pre[k]

\* the run went through all six stages with an article in hand and delivered
C25_Witness ==
    /\ runner.completed
    /\ Succeeded("send_email_digest")
    /\ Collected(state) # <<>>
    /\ "bias_analyzed_articles" \in DOMAIN state
    /\ "daily_digest" \in DOMAIN state

-----------------------------------------------------------------------------
(* C24 *)

\* C24: when the collection sequence politics, technology, europe has been run
\* twice on one session state against the same feeds, collected_articles is
\* what it was after the first run of the sequence.
C24_RerunIsIdempotent ==
    Len(runner.reports) = 2 =>
        /\ runner.reports[2] = runner.reports[1]
        /\ Collected(state) = runner.reports[1]

\* both runs are over and each collected two articles although the politics
\* query failed
C24_Witness ==
    /\ Len(runner.reports) = 2
    /\ Len(runner.reports[1]) = 2
    /\ Len(Collected(state)) = 2
    /\ runner.feeds[1].kind # "ok"

-----------------------------------------------------------------------------
(* C29 *)

\* the times job j has come due since the daemon started, up to now
TriggersPassed(j) ==
    Cardinality({ t \in (daemon.since + 1)..daemon.clock : t % DayTicks = JobTimes[j] })

FailedOutcomes == {"exit non-zero", "timeout", "error"}

\* C29: the scheduler never has two pipeline runs alive at once; a run that
\* fails, exits non-zero or runs into the one-hour timeout does not end the
\* scheduler loop; every daily trigger that comes due starts its run, at its
\* time.
C29_OneRunAtATimeLoopSurvivesFailures ==
    /\ daemon.active \in {0, 1}
    /\ daemon.active = 1 <=> daemon.pos = "child"
    /\ daemon.outcome \in FailedOutcomes => daemon.pos # "stopped"
    /\ daemon.pos = "child" => daemon.began % DayTicks = JobTimes[daemon.job]
    /\ daemon.pos = "sleeping" =>
          \A j \in Jobs : daemon.started[j] = TriggersPassed(j)

\* the midday run timed out, and the evening run was started all the same
C29_Witness ==
    /\ daemon.pos = "child"
    /\ daemon.job = 3
    /\ daemon.outcome = "timeout"
    /\ daemon.started[2] >= 1

====
